---- MODULE Spec2Model ----
(***************************************************************************)
(* A model of the rodi dependency-injection container: the registry        *)
(* (Container), the build pass (ResolutionContext, DynamicResolver,        *)
(* FactoryResolver), the provider family, Services.get/aget and the        *)
(* ActivationScope with its two cleanup stacks.                            *)
(***************************************************************************)
EXTENDS Integers, Sequences, FiniteSets, TLC

(***************************************************************************)
(* Bounds of the model.                                                    *)
(***************************************************************************)
\* objects constructed in one behaviour
MaxInst == 4
\* activation scopes created in one behaviour (throwaway scopes included)
MaxScopes == 2
\* the stack headroom a build may start with, in nested resolver calls:
\* the least amount, and how many different amounts
MinHeadroom == 3
DepthSlack == 2
\* distinct resolution results (key, scope, value) obtained in one behaviour
MaxResolved == 3
\* resolutions suspended in a user coroutine at the same time
MaxTasks == 2

(***************************************************************************)
(* The application classes handed to the container.  What the container    *)
(* sees of a class is its constructor signature (dynamic.py:148-152), its  *)
(* name (common.py:24-34) and whether it defines __init__                  *)
(* (dynamic.py:212-220).                                                   *)
(*    class Store: pass                                                    *)
(*    class Repo(Store): pass                                              *)
(*    class RepoImpl(Repo):  def __init__(self)                            *)
(*    class Svc:   def __init__(self, repo: Repo)                          *)
(*    class Ping:  def __init__(self, pong: Pong)                          *)
(*    class Pong:  def __init__(self, ping: Ping)                          *)
(*    class Ctl:   def __init__(self, repository)                          *)
(*    class Duo:   def __init__(self, first: Res, second: RepoImpl)        *)
(*    class Job:   def __init__(self, repo)                                *)
(*    class Hook:  def __init__(self, *args, **kwargs)                     *)
(*    class Page:  res: Res; repo: Repo       (annotated fields, no init)  *)
(*    class Res: pass            (the value made by the user factories)    *)
(***************************************************************************)
Types ==
  {"Store", "Repo", "RepoImpl", "Svc", "Ping", "Pong", "Ctl", "Duo", "Job",
   "Hook", "Page", "Res"}

Empty == "_empty"

Param(n, a) == [name |-> n, annotation |-> a]

Params ==
  [t \in Types |->
     CASE t = "Svc"  -> << Param("'repo'", "Repo") >>
       [] t = "Ping" -> << Param("'pong'", "Pong") >>
       [] t = "Pong" -> << Param("'ping'", "Ping") >>
       [] t = "Ctl"  -> << Param("'repository'", Empty) >>
       [] t = "Duo"  -> << Param("'first'", "Res"),
                           Param("'second'", "RepoImpl") >>
       [] t = "Job"  -> << Param("'repo'", Empty) >>
       [] t = "Hook" -> << Param("'args'", Empty), Param("'kwargs'", Empty) >>
       [] OTHER      -> << >>]

\* object.__init__ is the class's __init__ (no constructor of its own)
has_default_init ==
  [t \in Types |-> t \in {"Store", "Repo", "Page", "Res"}]

\* get_type_hints(concrete_type) without the attributes that
\* _ignore_class_attribute drops: the annotated fields, in declaration order
Annotations ==
  [t \in Types |->
     IF t = "Page" THEN << Param("'res'", "Res"), Param("'repo'", "Repo") >>
     ELSE << >>]

\* issubclass(c, k)
IsSubclass(c, k) ==
  \/ c = k
  \/ c = "RepoImpl" /\ k \in {"Repo", "Store"}
  \/ c = "Repo" /\ k = "Store"

\* class_name(t): a str, which is never equal to the type it names
class_name ==
  [t \in Types |->
     CASE t = "Store"    -> "'Store'"
       [] t = "Repo"     -> "'Repo'"
       [] t = "RepoImpl" -> "'RepoImpl'"
       [] t = "Svc"      -> "'Svc'"
       [] t = "Ping"     -> "'Ping'"
       [] t = "Pong"     -> "'Pong'"
       [] t = "Ctl"      -> "'Ctl'"
       [] t = "Duo"      -> "'Duo'"
       [] t = "Job"      -> "'Job'"
       [] t = "Hook"     -> "'Hook'"
       [] t = "Page"     -> "'Page'"
       [] OTHER          -> "'Res'"]

\* str.lower() of the class name
lower_name ==
  [t \in Types |->
     CASE t = "Store"    -> "'store'"
       [] t = "Repo"     -> "'repo'"
       [] t = "RepoImpl" -> "'repoimpl'"
       [] t = "Svc"      -> "'svc'"
       [] t = "Ping"     -> "'ping'"
       [] t = "Pong"     -> "'pong'"
       [] t = "Ctl"      -> "'ctl'"
       [] t = "Duo"      -> "'duo'"
       [] t = "Job"      -> "'job'"
       [] t = "Hook"     -> "'hook'"
       [] t = "Page"     -> "'page'"
       [] OTHER          -> "'res'"]

\* to_standard_param_name(class name): CamelCase to snake_case
to_standard_param_name ==
  [t \in Types |->
     IF t = "RepoImpl" THEN "'repo_impl'" ELSE lower_name[t]]

Names ==
  {class_name[t] : t \in Types} \cup {lower_name[t] : t \in Types}
    \cup {to_standard_param_name[t] : t \in Types} \cup {"'repository'"}

LifeStyles == {"TRANSIENT", "SCOPED", "SINGLETON"}

\* what inspect reports of a user factory: isasyncgenfunction,
\* iscoroutinefunction, isgeneratorfunction, or none of them
FactoryKinds == {"plain", "coroutine", "generator", "asyncgen"}

\* a user factory as the container sees it: what inspect reports of the
\* function it unwraps to (kind), and whether calling it returns an object
\* with the context manager protocol (cm).  Calling a bare generator
\* function returns a generator object, which has no such protocol; a
\* callable whose factory attribute is the generator function and whose
\* call returns contextlib.contextmanager(function)() has it.  ret is what
\* the function gives back: a new object ("obj"), None ("none"), a falsy
\* constant such as 0 ("zero"), or nothing because it raises ("raise").
\* arity is the number of parameters of its signature, and wrapper the
\* class Container._check_factory has wrapped it in ("": not wrapped).
Factory(kind, cm) ==
  [kind |-> kind, cm |-> cm, ret |-> "obj", arity |-> 0, wrapper |-> "",
   sets |-> "no"]

\* the factory f written to give back ret
Returning(f, ret) == [f EXCEPT !.ret = ret]

\* the factory f written with n parameters
Taking(f, n) == [f EXCEPT !.arity = n]

\* the function factory(context, parent_type) that
\* get_annotations_type_provider defines: it makes the instance and sets
\* its fields from the resolvers; how tells which of the definitions it is:
\* "plain" sets what the resolver returns, "await_all" awaits every
\* resolver, "await_awaitable" awaits the awaitable values
Setting(how) ==
  [Taking(Factory(IF how = "plain" THEN "plain" ELSE "coroutine", FALSE), 2)
     EXCEPT !.sets = how]

NoFactory == Factory("plain", FALSE)

\* get_plain_class_factory(concrete_type): def factory(*args), which takes
\* the two arguments a provider calls it with
get_plain_class_factory == Taking(Factory("plain", FALSE), 2)

Factories ==
  {Factory(k, FALSE) : k \in FactoryKinds}
    \cup {Factory(k, TRUE) : k \in {"generator", "asyncgen"}}

(***************************************************************************)
(* Resolvers, the values of Container._map.                                *)
(***************************************************************************)
DynamicResolver(concrete, life) ==
  [res |-> "DynamicResolver", concrete_type |-> concrete,
   life_style |-> life, factory |-> NoFactory]

FactoryResolver(concrete, factory, life) ==
  [res |-> "FactoryResolver", concrete_type |-> concrete,
   life_style |-> life, factory |-> factory]

(***************************************************************************)
(* Ordered dictionaries (Python dicts keep insertion order): sequences of  *)
(* [k, v] items.                                                           *)
(***************************************************************************)
\* InstanceResolver(instance): the instance is an object of the heap, made
\* by the application; concrete_type is instance.__class__
InstanceResolver(concrete, instance) ==
  [res |-> "InstanceResolver", concrete_type |-> concrete,
   life_style |-> "SINGLETON", factory |-> NoFactory, instance |-> instance]

Item(k, v) == [k |-> k, v |-> v]

Keys(d) == {d[i].k : i \in 1..Len(d)}

Has(d, k) == \E i \in 1..Len(d) : d[i].k = k

Get(d, k) == d[CHOOSE i \in 1..Len(d) : d[i].k = k].v

Put(d, k, v) ==
  IF Has(d, k)
    THEN [i \in 1..Len(d) |-> IF d[i].k = k THEN Item(k, v) ELSE d[i]]
    ELSE Append(d, Item(k, v))

\* defaultdict(set)[k].add(v)
AddTo(d, k, v) ==
  IF Has(d, k) THEN Put(d, k, Get(d, k) \cup {v}) ELSE Append(d, Item(k, {v}))

\* defaultdict(set)[k]: a missing key is inserted with an empty set
Touch(d, k) == IF Has(d, k) THEN d ELSE Append(d, Item(k, {}))

(***************************************************************************)
(* Outcome of the last call made to the container (what the caller saw).   *)
(***************************************************************************)
NoVal == [k |-> "none", a |-> 0, b |-> 0, c |-> ""]

\* a falsy constant that is not None (0, "", ())
Zero == [k |-> "zero", a |-> 0, b |-> 0, c |-> ""]

Obj(i) == [k |-> "obj", a |-> i, b |-> 0, c |-> ""]

\* the coroutine object an async provider returns when called: provider,
\* scope and parent_type of the call
Coro(p, s, t) == [k |-> "coro", a |-> p, b |-> s, c |-> t]

NoErr == [kind |-> "none", e1 |-> "", e2 |-> ""]

Err(kind, e1, e2) == [kind |-> kind, e1 |-> e1, e2 |-> e2]

\* rodi.constants.SENTINEL: the default of a call that is given none
SENTINEL == [k |-> "sentinel", a |-> 0, b |-> 0, c |-> ""]

\* default is the default= argument of a Services.get / aget call
Outcome(op, arg, scope, err, val) ==
  [op |-> op, arg |-> arg, scope |-> scope, err |-> err, val |-> val,
   default |-> SENTINEL]

(***************************************************************************)
(* Container: the registry.  c is the record of the container's slots      *)
(* (_map, _aliases, _exact_aliases, strict, _provider).                    *)
(***************************************************************************)
\* Container._provider is None
NoServices ==
  [built |-> FALSE, gen |-> 0, map |-> << >>, provs |-> << >>,
   executors |-> {}]

Container(strict_) ==
  [map |-> << >>, aliases |-> << >>, exact_aliases |-> << >>,
   strict |-> strict_, provider |-> NoServices]

Result(c, err) == [c |-> c, err |-> err]

\* a plausible slip: the cached Services is dropped before the duplicate check
bind_InvalidateFirst(c, key, value) ==
  IF Has(c.map, key)
    THEN Result([c EXCEPT !.provider = NoServices],
                Err("OverridingServiceException", key, ""))
    ELSE LET c1 == [c EXCEPT !.map = Append(@, Item(key, value)),
                             !.provider = NoServices]
         IN IF c.strict THEN Result(c1, NoErr)
            ELSE Result([c1 EXCEPT !.aliases =
                           AddTo(AddTo(AddTo(@, class_name[key], key),
                                       lower_name[key], key),
                                 to_standard_param_name[key], key)], NoErr)

\* a plausible slip: the cached Services survives a new binding
bind_KeepProvider(c, key, value) ==
  IF Has(c.map, key)
    THEN Result(c, Err("OverridingServiceException", key, ""))
    ELSE LET c1 == [c EXCEPT !.map = Append(@, Item(key, value))]
         IN IF c.strict THEN Result(c1, NoErr)
            ELSE Result([c1 EXCEPT !.aliases =
                           AddTo(AddTo(AddTo(@, class_name[key], key),
                                       lower_name[key], key),
                                 to_standard_param_name[key], key)], NoErr)

\* a plausible slip: the implicit aliases are registered in strict mode too
bind_AliasesWhenStrict(c, key, value) ==
  IF Has(c.map, key)
    THEN Result(c, Err("OverridingServiceException", key, ""))
    ELSE Result([c EXCEPT !.map = Append(@, Item(key, value)),
                          !.provider = NoServices,
                          !.aliases =
                            AddTo(AddTo(AddTo(@, class_name[key], key),
                                        lower_name[key], key),
                                  to_standard_param_name[key], key)], NoErr)

\* Container._bind
bind(c, key, value) ==
  IF Has(c.map, key)
    THEN Result(c, Err("OverridingServiceException", key, ""))
    ELSE LET c1 == [c EXCEPT !.map = Append(@, Item(key, value)),
                             !.provider = NoServices]
         IN \* no class name of the model is qualified ("." in key_name)
            IF c.strict THEN Result(c1, NoErr)
            ELSE Result([c1 EXCEPT !.aliases =
                           AddTo(AddTo(AddTo(@, class_name[key], key),
                                       lower_name[key], key),
                                 to_standard_param_name[key], key)], NoErr)

\* Container.bind_types, reached from add_singleton / add_scoped /
\* add_transient with a concrete type
bind_types(c, obj_type, concrete_type, life_style) ==
  IF ~IsSubclass(concrete_type, obj_type)
    THEN Result(c, Err("AssertionError", obj_type, concrete_type))
    ELSE bind(c, obj_type, DynamicResolver(concrete_type, life_style))

\* Container.add_singleton / add_scoped / add_transient; concrete_type may
\* be None, and then the exact type is bound (no class of the model is
\* abstract)
add_type(c, base_type, concrete_type, life_style) ==
  IF concrete_type = "None"
    THEN bind(c, base_type, DynamicResolver(base_type, life_style))
    ELSE bind_types(c, base_type, concrete_type, life_style)

\* Container.add_instance without declared_class
add_instance(c, concrete, instance) ==
  bind(c, concrete, InstanceResolver(concrete, instance))

\* a plausible slip: a factory with one parameter is wrapped as one with
\* none
check_factory_OneAsNone(factory) ==
  IF factory.arity <= 1
    THEN [factory EXCEPT !.wrapper = "FactoryWrapperNoArgs"]
  ELSE factory

\* Container._check_factory for a signature of at most two parameters: the
\* callable that FactoryResolver is given
check_factory(factory) ==
  IF factory.arity = 0
    THEN [factory EXCEPT !.wrapper = "FactoryWrapperNoArgs"]
  ELSE IF factory.arity = 1
    THEN [factory EXCEPT !.wrapper = "FactoryWrapperContextArg"]
  ELSE factory

\* Container.register_factory, reached from add_*_by_factory with an
\* explicit return_type; _check_factory raises before _bind is called
register_factory(c, factory, return_type, life_style) ==
  IF factory.arity > 2
    THEN Result(c, Err("InvalidFactory", return_type, ""))
    ELSE bind(c, return_type,
              FactoryResolver(return_type, check_factory(factory),
                              life_style))

\* Container.add_alias
add_alias(c, name, desired_type) ==
  IF c.strict THEN Result(c, Err("InvalidOperationInStrictMode", "", ""))
  ELSE IF Has(c.aliases, name) \/ Has(c.exact_aliases, name)
    THEN Result(c, Err("AliasAlreadyDefined", name, ""))
  ELSE Result([c EXCEPT !.aliases = AddTo(@, name, desired_type)], NoErr)

\* Container.set_alias
set_alias(c, name, desired_type, override) ==
  IF c.strict THEN Result(c, Err("InvalidOperationInStrictMode", "", ""))
  ELSE IF ~override /\ Has(c.exact_aliases, name)
    THEN Result(c, Err("AliasAlreadyDefined", name, ""))
  ELSE Result([c EXCEPT !.exact_aliases = Put(@, name, desired_type)], NoErr)

(***************************************************************************)
(* Providers.  A provider object is a record: its class, its _type, its    *)
(* factory, its _args_callbacks (indices of other providers of the same    *)
(* Services) and, for the singleton classes, its memo (instance /          *)
(* _instance).                                                             *)
(***************************************************************************)
Provider(cls, type, factory, fns) ==
  [cls |-> cls, type |-> type, factory |-> factory, args_callbacks |-> fns,
   instance |-> NoVal]

AsyncClasses ==
  {"AsyncArgsTypeProvider", "AsyncArgsTypeProviderExplicit",
   "AsyncFactoryTypeProvider", "AsyncContextManagerFactoryTypeProvider",
   "AsyncScopedFactoryTypeProvider", "AsyncScopedArgsTypeProvider",
   "AsyncScopedArgsTypeProviderExplicit",
   "AsyncScopedContextManagerFactoryTypeProvider",
   "AsyncSingletonFactoryTypeProvider", "AsyncSingletonTypeProvider",
   "AsyncSingletonTypeProviderExplicit",
   "AsyncSingletonContextManagerFactoryTypeProvider"}

\* inspect.iscoroutinefunction(provider.__call__)
iscoroutinefunction(p) == p.cls \in AsyncClasses

(***************************************************************************)
(* The build pass.  ctx is the ResolutionContext (resolved, dynamic_chain) *)
(* together with what the pass has produced so far: the provider objects   *)
(* (provs), the container's _aliases as the pass leaves it, the error      *)
(* raised (err) and the value returned by the last call (out, fns).        *)
(* env is what the pass reads of the container, and the stack headroom     *)
(* (limit: how many nested DynamicResolver calls fit before the            *)
(* interpreter raises RecursionError).                                     *)
(***************************************************************************)
ResolutionContext(aliases_) ==
  [resolved |-> << >>, dynamic_chain |-> << >>, provs |-> << >>,
   aliases |-> aliases_, err |-> NoErr, out |-> 0, fns |-> << >>,
   map |-> << >>]

Raise(ctx, err) == [ctx EXCEPT !.err = err]

Return(ctx, p) ==
  [ctx EXCEPT !.provs = Append(ctx.provs, p), !.out = Len(ctx.provs) + 1]

\* FactoryResolver.__call__
FactoryResolverCall(reg, ctx) ==
  LET t == reg.concrete_type
      life == reg.life_style
      cls ==
        CASE reg.factory.kind = "asyncgen" ->
               (CASE life = "SINGLETON" ->
                       "AsyncSingletonContextManagerFactoryTypeProvider"
                  [] life = "SCOPED" ->
                       "AsyncScopedContextManagerFactoryTypeProvider"
                  [] OTHER -> "AsyncContextManagerFactoryTypeProvider")
          [] reg.factory.kind = "coroutine" ->
               (CASE life = "SINGLETON" -> "AsyncSingletonFactoryTypeProvider"
                  [] life = "SCOPED" -> "AsyncScopedFactoryTypeProvider"
                  [] OTHER -> "AsyncFactoryTypeProvider")
          [] reg.factory.kind = "generator" ->
               (CASE life = "SINGLETON" ->
                       "SingletonContextManagerFactoryTypeProvider"
                  [] life = "SCOPED" ->
                       "ScopedContextManagerFactoryTypeProvider"
                  [] OTHER -> "ContextManagerFactoryTypeProvider")
          [] OTHER ->
               (CASE life = "SINGLETON" -> "SingletonFactoryTypeProvider"
                  [] life = "SCOPED" -> "ScopedFactoryTypeProvider"
                  [] OTHER -> "FactoryTypeProvider")
  IN Return(ctx, Provider(cls, t, reg.factory, << >>))

\* iscoroutinefunction(resolver) of get_annotations_type_provider: the test
\* is given the provider object and not its __call__, and an instance of a
\* provider class is no coroutine function
iscoroutinefunction_Object(p) == FALSE

\* get_annotations_type_provider: r is the context as
\* _get_resolvers_for_parameters left it, r.fns the resolvers of the fields
get_annotations_type_provider(reg, r) ==
  LET is_async ==
        \E j \in 1..Len(r.fns) : iscoroutinefunction_Object(r.provs[r.fns[j]])
      is_all_async ==
        \A j \in 1..Len(r.fns) : iscoroutinefunction_Object(r.provs[r.fns[j]])
      how == IF r.fns = << >> THEN "plain"
             ELSE IF is_all_async THEN "await_all"
             ELSE IF is_async THEN "await_awaitable"
             ELSE "plain"
  IN IF r.err # NoErr THEN r
     ELSE Return(r, [FactoryResolverCall(
                       FactoryResolver(reg.concrete_type, Setting(how),
                                       reg.life_style),
                       r).provs[Len(r.provs) + 1]
                       EXCEPT !.args_callbacks = r.fns])

\* the tail of DynamicResolver._resolve_by_init_method: the provider class
\* for a lifetime and the classification of the parameter providers
ArgsProviderClass(life, is_async, is_all_async) ==
  CASE is_all_async ->
         (CASE life = "SINGLETON" -> "AsyncSingletonTypeProviderExplicit"
            [] life = "SCOPED" -> "AsyncScopedArgsTypeProviderExplicit"
            [] OTHER -> "AsyncArgsTypeProviderExplicit")
    [] is_async ->
         (CASE life = "SINGLETON" -> "AsyncSingletonTypeProvider"
            [] life = "SCOPED" -> "AsyncScopedArgsTypeProvider"
            [] OTHER -> "AsyncArgsTypeProvider")
    [] OTHER ->
         (CASE life = "SINGLETON" -> "SingletonArgsTypeProvider"
            [] life = "SCOPED" -> "ScopedArgsTypeProvider"
            [] OTHER -> "ArgsTypeProvider")

\* the head of _resolve_by_init_method: a constructor taking only self
NoArgsProviderClass(life) ==
  CASE life = "SINGLETON" -> "SingletonTypeProvider"
    [] life = "SCOPED" -> "ScopedTypeProvider"
    [] OTHER -> "TypeProvider"

RECURSIVE DynamicResolverCall(_, _, _, _)
RECURSIVE get_resolvers_for_parameters(_, _, _, _, _, _, _)

\* a resolver of Container._map called with the context
\* a plausible slip: the class of the instance is provided as a singleton
\* type, and each Services makes its own object
InstanceResolverCall_OfClass(reg, ctx) ==
  Return(ctx, Provider("SingletonTypeProvider", reg.concrete_type, NoFactory,
                       << >>))

\* InstanceResolver.__call__
InstanceResolverCall(reg, ctx) ==
  Return(ctx, [Provider("InstanceProvider", reg.concrete_type, NoFactory,
                        << >>)
                 EXCEPT !.instance = reg.instance])

ResolverCall(env, reg, ctx, depth) ==
  IF reg.res = "DynamicResolver"
    THEN DynamicResolverCall(env, reg, ctx, depth)
  ELSE IF reg.res = "InstanceResolver"
    THEN InstanceResolverCall(reg, ctx)
  ELSE FactoryResolverCall(reg, ctx)

\* a plausible slip: the provider is not added to context.resolved
get_resolver_Forget(desired_type, r) == r

\* the tail of _get_resolver: r is the context as the call reg(context)
\* left it; the provider is added to context.resolved
get_resolver_Add(desired_type, r) ==
  IF r.err # NoErr THEN r
  ELSE [r EXCEPT !.resolved = Put(@, desired_type, r.out)]

\* DynamicResolver._get_resolver
get_resolver(env, desired_type, ctx, depth) ==
  IF Has(ctx.resolved, desired_type)
    THEN [ctx EXCEPT !.out = Get(ctx.resolved, desired_type)]
    ELSE get_resolver_Add(
           desired_type,
           ResolverCall(env, Get(env.map, desired_type), ctx, depth + 1))

\* the end of one round of the loop of _get_resolvers_for_parameters: r is
\* the context as _get_resolver left it; fns.append(param_resolver)
get_resolvers_Append(env, concrete_type, params, i, fns, r, depth) ==
  IF r.err # NoErr THEN r
  ELSE get_resolvers_for_parameters(
         env, concrete_type, params, i + 1, Append(fns, r.out), r, depth)

\* DynamicResolver._get_resolvers_for_parameters, from parameter i on;
\* fns are the providers of the parameters before i
get_resolvers_for_parameters(env, concrete_type, params, i, fns, ctx, depth) ==
  IF i > Len(params) THEN [ctx EXCEPT !.fns = fns]
  ELSE
    LET name == params[i].name
        ann == params[i].annotation
    IN
    IF name \in {"'self'", "'args'", "'kwargs'"}
      THEN get_resolvers_for_parameters(
             env, concrete_type, params, i + 1, fns, ctx, depth)
    ELSE IF ann = "Union"
      THEN Raise(ctx, Err("UnsupportedUnionTypeException", name, concrete_type))
    ELSE IF ann = Empty /\ env.strict
      THEN Raise(ctx, Err("CannotResolveParameterException", name, concrete_type))
    ELSE
      LET exact_alias ==
            IF ann = Empty /\ Has(env.exact_aliases, name)
              THEN Get(env.exact_aliases, name) ELSE Empty
          reads == ann = Empty /\ exact_alias = Empty
          \* services._aliases[param_name] on a defaultdict
          ctx1 == IF reads THEN [ctx EXCEPT !.aliases = Touch(@, name)] ELSE ctx
          aliases == IF reads THEN Get(ctx1.aliases, name) ELSE {}
      IN
      IF Cardinality(aliases) > 1
        THEN Raise(ctx1, Err("AssertionError", name, concrete_type))
      ELSE
        LET param_type ==
              IF ann # Empty THEN ann
              ELSE IF exact_alias # Empty THEN exact_alias
              ELSE IF aliases # {} THEN CHOOSE t \in aliases : TRUE
              ELSE Empty
        IN
        IF ~Has(env.map, param_type)
          THEN Raise(ctx1, Err("CannotResolveParameterException",
                               name, concrete_type))
        ELSE get_resolvers_Append(
               env, concrete_type, params, i, fns,
               get_resolver(env, param_type, ctx1, depth), depth)

\* the tail of _resolve_by_init_method: r is the context as
\* _get_resolvers_for_parameters left it, r.fns the parameter providers
resolve_by_init_Provider(reg, r) ==
  LET is_async ==
        \E j \in 1..Len(r.fns) : iscoroutinefunction(r.provs[r.fns[j]])
      is_all_async ==
        \A j \in 1..Len(r.fns) : iscoroutinefunction(r.provs[r.fns[j]])
  IN IF r.err # NoErr THEN r
     ELSE Return(r, Provider(
            ArgsProviderClass(reg.life_style, is_async, is_all_async),
            reg.concrete_type, NoFactory, r.fns))

\* DynamicResolver._resolve_by_init_method
resolve_by_init_method(env, reg, ctx, depth) ==
  IF Len(Params[reg.concrete_type]) = 0
    THEN Return(ctx, Provider(NoArgsProviderClass(reg.life_style),
                              reg.concrete_type, NoFactory, << >>))
    ELSE resolve_by_init_Provider(
           reg,
           get_resolvers_for_parameters(
             env, reg.concrete_type, Params[reg.concrete_type], 1, << >>,
             ctx, depth))

\* the except clause of DynamicResolver.__call__: r is the context as
\* _resolve_by_init_method left it
ExceptRecursionError(concrete_type, r) ==
  IF r.err.kind = "RecursionError"
    THEN Raise(r, Err("CircularDependencyException",
                      r.dynamic_chain[1], concrete_type))
    ELSE r

\* DynamicResolver.__call__; a call that does not fit the stack raises
\* RecursionError in the caller
DynamicResolverCall(env, reg, ctx, depth) ==
  IF depth > env.limit THEN Raise(ctx, Err("RecursionError", "", ""))
  ELSE IF has_default_init[reg.concrete_type]
    THEN IF Annotations[reg.concrete_type] # << >>
           THEN \* DynamicResolver._resolve_by_annotations
                ExceptRecursionError(
                  reg.concrete_type,
                  get_annotations_type_provider(
                    reg,
                    get_resolvers_for_parameters(
                      env, reg.concrete_type,
                      Annotations[reg.concrete_type], 1, << >>,
                      [ctx EXCEPT !.dynamic_chain =
                                    Append(@, reg.concrete_type)],
                      depth)))
           ELSE FactoryResolverCall(
                  FactoryResolver(reg.concrete_type, get_plain_class_factory,
                                  reg.life_style),
                  [ctx EXCEPT !.dynamic_chain = Append(@, reg.concrete_type)])
  ELSE ExceptRecursionError(
         reg.concrete_type,
         resolve_by_init_method(
           env, reg,
           [ctx EXCEPT !.dynamic_chain = Append(@, reg.concrete_type)],
           depth))

(***************************************************************************)
(* Container.build_provider.                                               *)
(***************************************************************************)
\* the order in which a Python set of types is iterated: it follows the
\* hashes of the type objects, which differ from run to run
IterOrders ==
  {<<"Store", "Repo", "RepoImpl", "Svc", "Ping", "Pong", "Ctl", "Duo",
     "Job", "Hook", "Page", "Res">>,
   <<"Res", "Page", "Hook", "Job", "Duo", "Ctl", "Pong", "Ping", "Svc", "RepoImpl", "Repo",
     "Store">>}

Pos(order, t) == CHOOSE i \in 1..Len(order) : order[i] = t

\* next(iter(_types), None)
IterFirst(types, order) ==
  IF types = {} THEN "None"
  ELSE CHOOSE t \in types : \A u \in types : Pos(order, t) <= Pos(order, u)

RECURSIVE BuildBindings(_, _, _)

\* the end of one round of the loop of build_provider over
\* self._map.items(): r is the context with the provider of the item in
\* r.out; _map[_type] = resolved and _map[type_name] = _map[_type]
BuildBindings_Set(env, i, type, r) ==
  IF r.err # NoErr THEN r
  ELSE BuildBindings(env, i + 1,
         [r EXCEPT !.resolved = Put(@, type, r.out),
                   !.map = Put(Put(@, type, r.out), class_name[type], r.out)])

\* the loop of build_provider over self._map.items(), from item i on;
\* ctx.map is the _map of the Services being built
BuildBindings(env, i, ctx) ==
  IF i > Len(env.map) THEN ctx
  ELSE
    LET type == env.map[i].k
        resolver == env.map[i].v
        ctx0 == IF resolver.res = "DynamicResolver"
                  THEN [ctx EXCEPT !.dynamic_chain = << >>] ELSE ctx
    IN IF Has(ctx0.resolved, type)
         THEN IF Has(ctx0.map, type)
                THEN Raise(ctx0, Err("OverridingServiceException", type, ""))
                ELSE BuildBindings_Set(
                       env, i, type,
                       [ctx0 EXCEPT !.out = Get(ctx0.resolved, type)])
         ELSE BuildBindings_Set(env, i, type,
                                ResolverCall(env, resolver, ctx0, 1))

RECURSIVE BuildAliases(_, _, _, _)
\* the loop over self._aliases.items()
BuildAliases(aliases, order, i, ctx) ==
  IF i > Len(aliases) \/ ctx.err # NoErr THEN ctx
  ELSE
    LET name == aliases[i].k
        type == IterFirst(aliases[i].v, order)
    IN IF ~Has(ctx.map, type)
         THEN Raise(ctx, Err("AliasConfigurationError", name, type))
         ELSE BuildAliases(aliases, order, i + 1,
                [ctx EXCEPT !.map = Put(@, name, Get(ctx.map, type))])

RECURSIVE BuildExactAliases(_, _, _)
\* the loop over self._exact_aliases.items()
BuildExactAliases(exact_aliases, i, ctx) ==
  IF i > Len(exact_aliases) \/ ctx.err # NoErr THEN ctx
  ELSE
    LET name == exact_aliases[i].k
        type == exact_aliases[i].v
    IN IF ~Has(ctx.map, type)
         THEN Raise(ctx, Err("AliasConfigurationError", name, type))
         ELSE BuildExactAliases(exact_aliases, i + 1,
                [ctx EXCEPT !.map = Put(@, name, Get(ctx.map, type))])

\* the second half of build_provider: b is the context after the loop over
\* the bindings; b.aliases is self._aliases as the pass has left it
build_provider_Aliases(c, order, b) ==
  IF b.err # NoErr \/ c.strict THEN b
  ELSE BuildExactAliases(c.exact_aliases, 1,
         BuildAliases(b.aliases, order, 1, b))

\* Container.build_provider: the context it ends with (err, or the _map and
\* the providers of the new Services); limit and order are the run's stack
\* headroom and set iteration order
build_provider(c, limit, order) ==
  build_provider_Aliases(
    c, order,
    BuildBindings([map |-> c.map, exact_aliases |-> c.exact_aliases,
                   strict |-> c.strict, limit |-> limit],
                  1, ResolutionContext(c.aliases)))

\* a plausible slip: the Services of the types prepared before the failure
\* is kept
provider_SetPartial(c, gen, b) ==
  Result([c EXCEPT !.aliases = b.aliases,
                   !.provider = [built |-> TRUE, gen |-> gen + 1,
                                 map |-> b.map, provs |-> b.provs,
                                 executors |-> {}]],
         b.err)

\* the assignment in the property Container.provider: b is the context
\* build_provider ended with, gen numbers the Services objects built so far
provider_Set(c, gen, b) ==
  IF b.err # NoErr
    THEN Result([c EXCEPT !.aliases = b.aliases], b.err)
    ELSE Result([c EXCEPT !.aliases = b.aliases,
                          !.provider = [built |-> TRUE, gen |-> gen + 1,
                                        map |-> b.map, provs |-> b.provs,
                                        executors |-> {}]],
                NoErr)

\* the property Container.provider: builds when _provider is None
provider(c, gen, limit, order) ==
  IF c.provider.built THEN Result(c, NoErr)
  ELSE provider_Set(c, gen, build_provider(c, limit, order))

\* the stack headroom a build may find: always more than an acyclic walk
\* over the classes of the model needs (the longest takes two nested calls)
Limits == MinHeadroom..(MinHeadroom + DepthSlack - 1)

(***************************************************************************)
(* Run time.  st is the part of the state a provider call reads and        *)
(* writes: the provider objects of the Services (provs, with the singleton *)
(* memos), the objects constructed so far (heap) and the activation scopes *)
(* (scopes); st.parent is the parent_type argument of the provider call in *)
(* progress.  A call returns a value and the state it leaves (Ret), or     *)
(* raises (Raised).                                                        *)
(***************************************************************************)
Ret(v, st) == [val |-> v, st |-> st, err |-> NoErr]

Raised(e, st) == [val |-> NoVal, st |-> st, err |-> e]

\* the scoped_services argument of ActivationScope and the scoped argument
\* of exec: None, or a dict of the caller with its items
NoMapping == [none |-> TRUE, items |-> << >>]

Mapping(items) == [none |-> FALSE, items |-> items]

\* ActivationScope.__init__; throwaway marks the scope Services.get makes
\* for one call when it is given none, exited tells by which protocol the
\* scope was left ("no": it is still active)
ActivationScope(throwaway) ==
  [scoped_services |-> << >>, stack |-> << >>, astack |-> << >>,
   exited |-> "no", throwaway |-> throwaway]

\* scoped_services or {} of ActivationScope.__init__ evaluates to the
\* argument itself: a dict with items is truthy and becomes the cache of
\* the scope, the same object; None and a dict without items are falsy,
\* and the cache is a new dict
Adopted(scoped) == ~scoped.none /\ scoped.items # << >>

\* ActivationScope(provider, scoped)
ActivationScopeWith(scoped) ==
  [ActivationScope(FALSE) EXCEPT !.scoped_services =
                                   IF Adopted(scoped) THEN scoped.items
                                   ELSE << >>]

SingletonClasses ==
  {"SingletonFactoryTypeProvider", "AsyncSingletonFactoryTypeProvider",
   "SingletonTypeProvider", "SingletonArgsTypeProvider",
   "AsyncSingletonTypeProvider", "AsyncSingletonTypeProviderExplicit",
   "SingletonContextManagerFactoryTypeProvider",
   "AsyncSingletonContextManagerFactoryTypeProvider"}

ScopedClasses ==
  {"ScopedTypeProvider", "ScopedFactoryTypeProvider",
   "AsyncScopedFactoryTypeProvider", "ScopedArgsTypeProvider",
   "AsyncScopedArgsTypeProvider", "AsyncScopedArgsTypeProviderExplicit",
   "ScopedContextManagerFactoryTypeProvider",
   "AsyncScopedContextManagerFactoryTypeProvider"}

\* the classes whose __call__ enters the factory's context manager on
\* context.stack, and on context.astack
StackClasses ==
  {"ContextManagerFactoryTypeProvider",
   "ScopedContextManagerFactoryTypeProvider",
   "SingletonContextManagerFactoryTypeProvider"}

AStackClasses ==
  {"AsyncContextManagerFactoryTypeProvider",
   "AsyncScopedContextManagerFactoryTypeProvider",
   "AsyncSingletonContextManagerFactoryTypeProvider"}

\* the classes that await every argument provider, and those that await
\* the awaitable ones
ExplicitClasses ==
  {"AsyncArgsTypeProviderExplicit", "AsyncScopedArgsTypeProviderExplicit",
   "AsyncSingletonTypeProviderExplicit"}

MixedClasses ==
  {"AsyncArgsTypeProvider", "AsyncScopedArgsTypeProvider",
   "AsyncSingletonTypeProvider"}

isawaitable(v) == v.k = "coro"

\* the classes FactoryResolver makes: their __call__ calls self.factory
FactoryClasses ==
  StackClasses \cup AStackClasses
    \cup {"FactoryTypeProvider", "AsyncFactoryTypeProvider",
          "ScopedFactoryTypeProvider", "AsyncScopedFactoryTypeProvider",
          "SingletonFactoryTypeProvider",
          "AsyncSingletonFactoryTypeProvider"}

\* the arguments the user's function is called with (n of them: the scope,
\* then the parent type); none for a class, whose arguments are args
Passed(n, s, t) ==
  [n |-> n, scope |-> IF n >= 1 THEN s ELSE 0,
   type |-> IF n >= 2 THEN t ELSE ""]

\* self.factory(context, parent_type) as it reaches the user's function:
\* FactoryWrapperNoArgs.__call__ and FactoryWrapperContextArg.__call__ drop
\* arguments, an unwrapped function gets both
FactoryCall(factory, s, parent_type) ==
  IF factory.wrapper = "FactoryWrapperNoArgs" THEN Passed(0, s, parent_type)
  ELSE IF factory.wrapper = "FactoryWrapperContextArg"
    THEN Passed(1, s, parent_type)
  ELSE Passed(2, s, parent_type)

\* self._type(*args), and equally a call of the user factory: the call is
\* recorded with the provider that made it (by, cls), the Services of that
\* provider (gen), the scope the provider was called with and what it gave
\* back (made); torn counts the runs of the object's teardown and rank is
\* the place of that run among the teardowns of the scope's exit
Construct(pid, s, args, st) ==
  LET made == st.provs[pid].factory.ret
      passed == IF st.provs[pid].cls \in FactoryClasses
                  THEN FactoryCall(st.provs[pid].factory, s, st.parent)
                  ELSE Passed(0, s, st.parent)
      o == [type |-> st.provs[pid].type, args |-> args, by |-> pid,
            cls |-> st.provs[pid].cls, gen |-> st.gen, scope |-> s,
            torn |-> 0, rank |-> 0, made |-> made, passed |-> passed]
      st1 == [st EXCEPT !.heap = Append(@, o)]
  IN CASE st.provs[pid].cls \in FactoryClasses
            /\ passed.n # st.provs[pid].factory.arity ->
            \* the call does not match the function's signature
            Raised(Err("TypeError", st.provs[pid].type, ""), st)
       [] made = "raise" ->
            Raised(Err("FactoryError", st.provs[pid].type, ""), st1)
       [] made = "none" -> Ret(NoVal, st1)
       [] made = "zero" -> Ret(Zero, st1)
       [] OTHER -> Ret(Obj(Len(st.heap) + 1), st1)

\* the push of ExitStack.enter_context / enter_async_context: made is the
\* value the context manager's __enter__ returned
EnterContext_Push(cls, s, made) ==
  IF made.err # NoErr THEN made
  ELSE IF cls \in StackClasses
    THEN Ret(made.val,
             [made.st EXCEPT !.scopes[s].stack = Append(@, Len(made.st.heap))])
    ELSE Ret(made.val,
             [made.st EXCEPT !.scopes[s].astack = Append(@, Len(made.st.heap))])

\* ExitStack.enter_context / AsyncExitStack.enter_async_context of what the
\* factory returned: without the protocol, TypeError, and the body of the
\* generator has not started; with it, the value is produced and its exit
\* is pushed on the stack
EnterContext(pid, s, st) ==
  IF ~st.provs[pid].factory.cm
    THEN Raised(Err("TypeError", st.provs[pid].type, ""), st)
    ELSE EnterContext_Push(st.provs[pid].cls, s,
                           Construct(pid, s, << >>, st))

RECURSIVE Call(_, _, _)
RECURSIVE Await(_, _)
RECURSIVE Arguments(_, _, _, _, _)

\* a plausible slip: an argument whose provider raised is passed as None
Arguments_BestEffort(pid, s, i, args, value) ==
  Arguments(pid, s, i + 1, Append(args, value.val), value.st)

\* one element of the argument list is complete: value is what the
\* callback returned, or what awaiting it gave
Arguments_Append(pid, s, i, args, value) ==
  IF value.err # NoErr THEN value
  ELSE Arguments(pid, s, i + 1, Append(args, value.val), value.st)

\* the await of the classes with asynchronous arguments: called is what the
\* callback returned
Arguments_Await(pid, s, i, args, cls, called) ==
  IF called.err = NoErr
       /\ (\/ cls \in ExplicitClasses
           \/ (cls \in MixedClasses /\ isawaitable(called.val)))
    THEN Arguments_Append(pid, s, i, args, Await(called.val, called.st))
    ELSE Arguments_Append(pid, s, i, args, called)

\* a plausible slip: the callbacks are taken from the last to the first
Arguments_Backwards(pid, s, i, args, st) ==
  IF i > Len(st.provs[pid].args_callbacks) THEN Ret(args, st)
  ELSE Arguments_Await(
         pid, s, i, args, st.provs[pid].cls,
         Call(st.provs[pid].args_callbacks[
                Len(st.provs[pid].args_callbacks) - i + 1], s,
              [st EXCEPT !.parent = st.provs[pid].type]))

\* the argument list [fn(context, self._type) for fn in self._args_callbacks]
\* from callback i on, built one callback at a time, in order
Arguments(pid, s, i, args, st) ==
  IF i > Len(st.provs[pid].args_callbacks) THEN Ret(args, st)
  ELSE Arguments_Await(pid, s, i, args, st.provs[pid].cls,
                       Call(st.provs[pid].args_callbacks[i], s,
                            [st EXCEPT !.parent = st.provs[pid].type]))

RECURSIVE Fields(_, _, _, _, _, _)

\* setattr(instance, name, value): value is what the resolver, or its
\* await, gave; the fields of object o are kept as its args
Fields_Set(pid, s, i, o, parent_type, value) ==
  IF value.err # NoErr THEN value
  ELSE Fields(pid, s, i + 1, o, parent_type,
              [value.st EXCEPT !.heap[o].args = Append(@, value.val)])

\* the await of the asynchronous definitions of the function: called is
\* what the resolver returned
Fields_Await(pid, s, i, o, parent_type, how, called) ==
  IF called.err = NoErr
       /\ (\/ how = "await_all"
           \/ (how = "await_awaitable" /\ isawaitable(called.val)))
    THEN Fields_Set(pid, s, i, o, parent_type,
                    Await(called.val, called.st))
    ELSE Fields_Set(pid, s, i, o, parent_type, called)

\* the loop for name, resolver in resolvers.items() from resolver i on:
\* each is called with the context and the function's parent_type
Fields(pid, s, i, o, parent_type, st) ==
  IF i > Len(st.provs[pid].args_callbacks) THEN Ret(Obj(o), st)
  ELSE Fields_Await(pid, s, i, o, parent_type, st.provs[pid].factory.sets,
                    Call(st.provs[pid].args_callbacks[i], s,
                         [st EXCEPT !.parent = parent_type]))

\* the loop of the function over the instance it has made (made)
Fields_Of(pid, s, parent_type, made) ==
  IF made.err # NoErr THEN made
  ELSE Fields(pid, s, 1, Len(made.st.heap), parent_type, made.st)

\* self._type(*args) / self.factory(context, parent_type) once the
\* arguments a are there
Produce_Construct(pid, s, a) ==
  IF a.err # NoErr THEN a ELSE Construct(pid, s, a.val, a.st)

\* what the transient classes do on every call, and the scoped and the
\* singleton classes on a miss: produce the value
\* transient.py: TypeProvider, ArgsTypeProvider, AsyncArgsTypeProvider,
\* AsyncArgsTypeProviderExplicit, FactoryTypeProvider,
\* AsyncFactoryTypeProvider, ContextManagerFactoryTypeProvider,
\* AsyncContextManagerFactoryTypeProvider
Produce(pid, s, st) ==
  IF st.provs[pid].cls \in StackClasses \cup AStackClasses
    THEN EnterContext(pid, s, st)
  ELSE IF st.provs[pid].factory.sets # "no"
    THEN Fields_Of(pid, s, st.parent, Construct(pid, s, << >>, st))
  ELSE Produce_Construct(pid, s, Arguments(pid, s, 1, << >>, st))

\* context.scoped_services[self._type] = service, made being what the
\* miss produced
ScopedCall_Store(type, s, made) ==
  IF made.err # NoErr THEN made
  ELSE Ret(made.val,
           [made.st EXCEPT !.scopes[s].scoped_services =
                             Put(@, type, made.val)])

\* a plausible slip: the cache of the first scope that holds the type
\* serves every scope
ScopedCall_AnyScope(pid, s, st) ==
  IF \E q \in 1..Len(st.scopes) :
       Has(st.scopes[q].scoped_services, st.provs[pid].type)
    THEN Ret(Get(st.scopes[
                   CHOOSE q \in 1..Len(st.scopes) :
                     Has(st.scopes[q].scoped_services, st.provs[pid].type)
                 ].scoped_services, st.provs[pid].type), st)
    ELSE ScopedCall_Store(st.provs[pid].type, s, Produce(pid, s, st))

\* __call__ of the classes of scoped.py
ScopedCall(pid, s, st) ==
  IF Has(st.scopes[s].scoped_services, st.provs[pid].type)
    THEN Ret(Get(st.scopes[s].scoped_services, st.provs[pid].type), st)
    ELSE ScopedCall_Store(st.provs[pid].type, s, Produce(pid, s, st))

\* self.instance = ..., made being what the miss produced
SingletonCall_Memo(pid, made) ==
  IF made.err # NoErr THEN made
  ELSE Ret(made.val, [made.st EXCEPT !.provs[pid].instance = made.val])

\* a plausible slip: the memo is never written
SingletonCall_NoMemo(pid, s, st) ==
  IF st.provs[pid].instance # NoVal THEN Ret(st.provs[pid].instance, st)
  ELSE Produce(pid, s, st)

\* a plausible slip: the context manager singletons push their exit on the
\* stack of every scope that resolves them
SingletonCall_EnterAgain(pid, s, st) ==
  IF st.provs[pid].instance # NoVal
    THEN IF st.provs[pid].cls \in StackClasses \cup AStackClasses
           THEN EnterContext_Push(st.provs[pid].cls, s,
                                  Ret(st.provs[pid].instance, st))
           ELSE Ret(st.provs[pid].instance, st)
    ELSE SingletonCall_Memo(pid, Produce(pid, s, st))

\* a plausible slip: a memo whose teardown has run counts as empty, and
\* the singleton is made anew
SingletonCall_Renew(pid, s, st) ==
  IF /\ st.provs[pid].instance # NoVal
     /\ ~(/\ st.provs[pid].instance.k = "obj"
          /\ st.heap[st.provs[pid].instance.a].torn > 0)
    THEN Ret(st.provs[pid].instance, st)
    ELSE SingletonCall_Memo(pid, Produce(pid, s, st))

\* __call__ of the classes of singleton.py
SingletonCall(pid, s, st) ==
  IF st.provs[pid].instance # NoVal THEN Ret(st.provs[pid].instance, st)
  ELSE SingletonCall_Memo(pid, Produce(pid, s, st))

\* the body of a provider's __call__; the function resolver that
\* Services.set makes returns the value it was made with, and
\* InstanceProvider.__call__ its instance
Body(pid, s, st) ==
  IF st.provs[pid].cls \in {"resolver", "InstanceProvider"}
    THEN Ret(st.provs[pid].instance, st)
  ELSE IF st.provs[pid].cls \in SingletonClasses THEN SingletonCall(pid, s, st)
  ELSE IF st.provs[pid].cls \in ScopedClasses THEN ScopedCall(pid, s, st)
  ELSE Produce(pid, s, st)

\* provider(context, parent_type), st.parent being parent_type: an async
\* def returns its coroutine object and runs nothing
Call(pid, s, st) ==
  IF iscoroutinefunction(st.provs[pid]) THEN Ret(Coro(pid, s, st.parent), st)
  ELSE Body(pid, s, st)

\* await of the coroutine object of an async provider, run to completion
Await(coro, st) == Body(coro.a, coro.b, [st EXCEPT !.parent = coro.c])

\* the test a cached provider's __call__ starts with: self.instance is not
\* None, self._type in context.scoped_services
Hit(pid, s, st) ==
  IF st.provs[pid].cls \in SingletonClasses
    THEN st.provs[pid].instance # NoVal
  ELSE IF st.provs[pid].cls \in ScopedClasses
    THEN Has(st.scopes[s].scoped_services, st.provs[pid].type)
  ELSE FALSE

\* a plausible slip: the test is made again after the await
Miss_Rechecked(pid, s, st) == Body(pid, s, st)

\* what __call__ does after that test failed: produce, then assign
Miss(pid, s, st) ==
  IF st.provs[pid].cls \in SingletonClasses
    THEN SingletonCall_Memo(pid, Produce(pid, s, st))
  ELSE IF st.provs[pid].cls \in ScopedClasses
    THEN ScopedCall_Store(st.provs[pid].type, s, Produce(pid, s, st))
  ELSE Produce(pid, s, st)

\* the async providers whose first step after the test is the await of a
\* user's coroutine function: the factory classes, and the argument
\* classes whose first argument comes from a transient async factory
AwaitsUserCoroutineFirst(pid, provs) ==
  \/ provs[pid].cls \in {"AsyncFactoryTypeProvider",
                         "AsyncScopedFactoryTypeProvider",
                         "AsyncSingletonFactoryTypeProvider"}
  \/ /\ provs[pid].cls \in ExplicitClasses \cup MixedClasses
     /\ Len(provs[pid].args_callbacks) > 0
     /\ provs[provs[pid].args_callbacks[1]].cls = "AsyncFactoryTypeProvider"

(***************************************************************************)
(* Services.get / aget and ActivationScope exit.                           *)
(***************************************************************************)
\* bool(value): None and 0 are falsy; every object of the model's classes
\* and every coroutine object is truthy
Truthy(v) == v.k \notin {"none", "zero"}

\* a plausible slip: the default is tested for truth
get_DefaultIfTruthy(services_map, desired_type, s, default, st) ==
  LET cache == st.scopes[s].scoped_services
      scoped_service ==
        IF Has(cache, desired_type) THEN Get(cache, desired_type) ELSE NoVal
  IN IF Truthy(scoped_service) THEN Ret(scoped_service, st)
     ELSE IF Has(services_map, desired_type)
       THEN Call(Get(services_map, desired_type), s,
                 [st EXCEPT !.parent = desired_type])
     ELSE IF Truthy(default) THEN Ret(default, st)
     ELSE Raised(Err("CannotResolveTypeException", desired_type, ""), st)

\* Services.get(desired_type, scope, default=default) with scope an
\* ActivationScope; services_map is Services._map
get(services_map, desired_type, s, default, st) ==
  LET cache == st.scopes[s].scoped_services
      \* dict.get: None when the key is missing
      scoped_service ==
        IF Has(cache, desired_type) THEN Get(cache, desired_type) ELSE NoVal
  IN IF Truthy(scoped_service) THEN Ret(scoped_service, st)
     ELSE IF Has(services_map, desired_type)
       THEN Call(Get(services_map, desired_type), s,
                 [st EXCEPT !.parent = desired_type])
     ELSE IF default # SENTINEL THEN Ret(default, st)
     ELSE Raised(Err("CannotResolveTypeException", desired_type, ""), st)

\* Services.set(new_type, value) / Services.__setitem__ on the Services sv:
\* a key of the model is a str when it is a name
set(sv, new_type, value) ==
  IF Has(sv.map, new_type)
    THEN [sv |-> sv, err |-> Err("OverridingServiceException", new_type, "")]
  ELSE IF new_type \notin Names /\ Has(sv.map, class_name[new_type])
    \* the lookup self._map[new_type] made for the error's message
    THEN [sv |-> sv, err |-> Err("KeyError", new_type, "")]
  ELSE
    [sv |-> [sv EXCEPT
               !.provs = Append(@, [Provider("resolver", new_type, NoFactory,
                                             << >>)
                                      EXCEPT !.instance = value]),
               !.map = IF new_type \in Names
                         THEN Append(@, Item(new_type, Len(sv.provs) + 1))
                         ELSE Append(Append(@, Item(new_type,
                                                    Len(sv.provs) + 1)),
                                     Item(class_name[new_type],
                                          Len(sv.provs) + 1))],
     err |-> NoErr]

\* the tail of Services.aget: result is what get returned
aget_Await(result) ==
  IF result.err = NoErr /\ isawaitable(result.val)
    THEN Await(result.val, result.st)
    ELSE result

\* Services.aget
aget(services_map, desired_type, s, default, st) ==
  aget_Await(get(services_map, desired_type, s, default, st))

\* ExitStack.__exit__ / AsyncExitStack.__aexit__: the registered exit
\* callbacks are popped and run last in, first out; done is how many
\* teardowns the exit of the scope has run before
RECURSIVE Unwind(_, _, _)
Unwind(stack, heap, done) ==
  IF stack = << >> THEN heap
  ELSE Unwind(SubSeq(stack, 1, Len(stack) - 1),
              [heap EXCEPT ![stack[Len(stack)]].torn = @ + 1,
                           ![stack[Len(stack)]].rank = done + 1],
              done + 1)

\* a plausible slip: dispose drops the provider and leaves the cache
dispose_KeepCache(scope) == scope

\* ActivationScope.dispose (the provider slot is not part of the model)
dispose(scope) == [scope EXCEPT !.scoped_services = << >>]

\* a plausible slip: the sync exit forgets to unwind its stack
exit_NoUnwind(s, st) ==
  [st EXCEPT !.scopes[s] = dispose([@ EXCEPT !.exited = "exit"])]

\* ActivationScope.__exit__
exit(s, st) ==
  [st EXCEPT !.heap = Unwind(st.scopes[s].stack, @, 0),
             !.scopes[s] = dispose([@ EXCEPT !.stack = << >>,
                                             !.exited = "exit"])]

\* ActivationScope.__aexit__
aexit(s, st) ==
  [st EXCEPT !.heap = Unwind(st.scopes[s].astack,
                             Unwind(st.scopes[s].stack, @, 0),
                             Len(st.scopes[s].stack)),
             !.scopes[s] = dispose([@ EXCEPT !.stack = << >>,
                                             !.astack = << >>,
                                             !.exited = "aexit"])]

(***************************************************************************)
(* Services.exec.  A method is the user's callable as exec sees it: the    *)
(* annotations of its parameters, whether it is a coroutine function,      *)
(* whether its body raises, whether its body awaits the awaitable          *)
(* arguments it is given, and whether it carries the _locals that the      *)
(* decorator inject sets.                                                  *)
(***************************************************************************)
Method(params, is_async, raises, awaits, locals) ==
  [params |-> params, async |-> is_async, raises |-> raises,
   awaits |-> awaits, locals |-> locals]

\* get_factory_annotations_or_throw(method) raises: get_executor calls it
\* when the interpreter is Python 3.10 or later (py310)
MissingContext(method, py310) == py310 /\ ~method.locals

RECURSIVE exec_Getters(_, _, _, _, _, _)

\* one getter of the executor has returned or raised (r)
exec_Getters_Append(services_map, params, s, i, args, r) ==
  IF r.err # NoErr THEN r
  ELSE exec_Getters(services_map, params, s, i + 1, Append(args, r.val), r.st)

\* [fn(context) for fn in fns], each fn being the getter
\* self.get(param.annotation, context) of Services._get_getter
exec_Getters(services_map, params, s, i, args, st) ==
  IF i > Len(params) THEN Ret(args, st)
  ELSE exec_Getters_Append(services_map, params, s, i, args,
                           get(services_map, params[i], s, SENTINEL, st))

RECURSIVE method_Awaits(_, _, _)

\* one await of the method's body is over (r)
method_Awaits_Next(args, i, r) ==
  IF r.err # NoErr THEN r ELSE method_Awaits(args, i + 1, r.st)

\* the body of a coroutine method awaiting its awaitable arguments in turn
method_Awaits(args, i, st) ==
  IF i > Len(args) THEN Ret(NoVal, st)
  ELSE IF isawaitable(args[i])
    THEN method_Awaits_Next(args, i, Await(args[i], st))
  ELSE method_Awaits(args, i + 1, st)

\* the end of the method's body: r is what its awaits left; the method
\* returns its first argument, as it received it (None without arguments)
method_Return(method, args, r) ==
  IF r.err # NoErr THEN r
  ELSE IF method.raises THEN Raised(Err("MethodError", "", ""), r.st)
  ELSE Ret(IF args = << >> THEN NoVal ELSE args[1], r.st)

\* method(*[...]) / await method(*[...]): a is what the getters left
method_Call(method, a) ==
  IF a.err # NoErr THEN a
  ELSE IF method.async /\ method.awaits
    THEN method_Return(method, a.val, method_Awaits(a.val, 1, a.st))
  ELSE method_Return(method, a.val, a)

\* a plausible slip: the scope is left only when the block returns
executor_ExitOnReturn(method, s, r) ==
  IF r.err # NoErr THEN r
  ELSE IF method.async THEN [r EXCEPT !.st = aexit(s, r.st)]
  ELSE [r EXCEPT !.st = exit(s, r.st)]

\* the end of the with / async with block of the executor, r being what
\* the block returned or raised
executor_Exit(method, s, r) ==
  IF method.async THEN [r EXCEPT !.st = aexit(s, r.st)]
  ELSE [r EXCEPT !.st = exit(s, r.st)]

\* the block of the executor's with statement, in the new scope:
\* method(*[fn(context) for fn in fns]), awaited for a coroutine method
executor_Block(services_map, method, scoped, st) ==
  method_Call(
    method,
    exec_Getters(services_map, method.params, Len(st.scopes) + 1, 1, << >>,
                 [st EXCEPT !.scopes =
                    Append(@, ActivationScopeWith(scoped))]))

\* the executor get_executor makes for method, called with scoped: a new
\* ActivationScope(self, scoped) is entered, the getters and the method run
\* in it, and it is exited
executor(services_map, method, scoped, st) ==
  executor_Exit(method, Len(st.scopes) + 1,
                executor_Block(services_map, method, scoped, st))

(***************************************************************************)
(* The applications that drive the container: each is the set of           *)
(* registration calls its code makes (in any order, any number of times),  *)
(* around resolutions and scopes; async tells whether the application     *)
(* runs under an event loop (aresolve, async with scope).                  *)
(***************************************************************************)
App(strict_, types, factories, aliases_, exacts, async_) ==
  [strict |-> strict_, types |-> types, factories |-> factories,
   aliases |-> aliases_, exacts |-> exacts, async |-> async_,
   instances |-> {}]

\* Svc depends on Repo by declared type, under every pair of lifetimes
AppLifetimes ==
  App(FALSE,
      {<<b, "None", l>> : b \in {"Svc", "Repo"}, l \in LifeStyles},
      {}, {}, {}, FALSE)

\* an implementation registered for two of its base types
AppBases ==
  App(FALSE,
      {<<"Store", "Repo", "SCOPED">>, <<"Repo", "RepoImpl", "SCOPED">>},
      {}, {}, {}, FALSE)

\* an implementation registered for its base type and under its own type
AppOwnType ==
  App(FALSE,
      {<<"Repo", "RepoImpl", "SCOPED">>,
       <<"RepoImpl", "None", "TRANSIENT">>, <<"RepoImpl", "None", "SINGLETON">>},
      {}, {}, {}, FALSE)

\* two classes that need each other
AppCycle ==
  App(FALSE,
      {<<"Ping", "None", "TRANSIENT">>, <<"Pong", "None", "TRANSIENT">>},
      {}, {}, {}, FALSE)

\* a constructor parameter without annotation, wired by name
AppAlias ==
  App(FALSE,
      {<<"Ctl", "None", "TRANSIENT">>, <<"RepoImpl", "None", "TRANSIENT">>},
      {}, {<<"'repository'", "RepoImpl">>},
      {<<"'repository'", "RepoImpl", FALSE>>}, FALSE)

\* user factories of every kind and lifetime for Res
AppFactories ==
  App(FALSE, {},
      {<<f, "Res", l>> : f \in Factories, l \in LifeStyles},
      {}, {}, TRUE)

\* factories that give back a new object, None or 0, under the cached
\* lifetimes
AppReturns ==
  App(FALSE, {},
      {<<Returning(Factory(k, FALSE), r), "Res", l>> :
         k \in {"plain", "coroutine"}, r \in {"obj", "none", "zero"},
         l \in {"SINGLETON", "SCOPED"}},
      {}, {}, TRUE)

\* one type under each lifetime, asked for through Services.get with and
\* without default, in scopes created with and without a given cache
AppGet ==
  App(FALSE, {<<"RepoImpl", "None", l>> : l \in LifeStyles},
      {}, {}, {}, FALSE)

\* a class with two dependencies, each made by a sync or an async factory
AppOrder ==
  App(FALSE, {<<"Duo", "None", l>> : l \in LifeStyles},
      {<<Factory(k, FALSE), t, "TRANSIENT">> :
         k \in {"plain", "coroutine"}, t \in {"Res", "RepoImpl"}},
      {}, {}, TRUE)

\* the application of AppAlias on a strict container, with and without
\* override
AppStrict ==
  App(TRUE,
      {<<"Ctl", "None", "TRANSIENT">>, <<"RepoImpl", "None", "SCOPED">>},
      {}, {<<"'repository'", "RepoImpl">>},
      {<<"'repository'", "RepoImpl", o>> : o \in BOOLEAN}, FALSE)

\* cached values made by coroutines: Res from an async factory, and Svc
\* from its class with the dependency Repo made by an async factory, each
\* as singleton and as scoped
AppsAwait ==
  {App(FALSE, {}, {<<Factory("coroutine", FALSE), "Res", l>>}, {}, {}, TRUE) :
     l \in {"SINGLETON", "SCOPED"}}
  \cup
  {App(FALSE, {<<"Svc", "None", l>>},
       {<<Factory("coroutine", FALSE), "Repo", "TRANSIENT">>}, {}, {}, TRUE) :
     l \in {"SINGLETON", "SCOPED"}}

\* Svc under each lifetime, with the dependency Repo made by a factory
\* that raises
AppRaise ==
  App(FALSE, {<<"Svc", "None", l>> : l \in LifeStyles},
      {<<Returning(Factory(k, FALSE), "raise"), "Repo", "TRANSIENT">> :
         k \in {"plain", "coroutine"}},
      {}, {}, TRUE)

\* Svc needs Repo; RepoImpl needs nothing
AppPartial ==
  App(FALSE,
      {<<"Svc", "None", l>> : l \in {"TRANSIENT", "SINGLETON"}}
        \cup {<<"RepoImpl", "None", "SCOPED">>,
              <<"Repo", "None", "TRANSIENT">>},
      {}, {}, {}, FALSE)

\* Res made by factories of every kind, for methods run by Services.exec
AppExec ==
  App(FALSE, {},
      {<<f, "Res", l>> : f \in Factories, l \in LifeStyles},
      {}, {}, TRUE)

\* Res from a generator factory and Repo from an async generator factory,
\* both with the context manager protocol
AppTeardown ==
  App(FALSE, {},
      {<<Factory("generator", TRUE), "Res", l>> :
         l \in {"TRANSIENT", "SCOPED"}}
        \cup {<<Factory("asyncgen", TRUE), "Repo", "TRANSIENT">>},
      {}, {}, TRUE)

\* the name repo given as alias to RepoImpl, with Repo bound too: binding
\* Repo adds it to the candidates of the names Repo and repo; Job has the
\* unannotated parameter repo
AppAmbiguous ==
  App(FALSE,
      {<<"Repo", "None", "TRANSIENT">>, <<"RepoImpl", "None", "TRANSIENT">>,
       <<"Job", "None", "TRANSIENT">>},
      {}, {<<"'repo'", "RepoImpl">>}, {}, FALSE)

\* the class name of Svc set as exact alias of RepoImpl
AppNameClash ==
  App(FALSE,
      {<<"Svc", "None", "TRANSIENT">>, <<"Repo", "None", "TRANSIENT">>,
       <<"RepoImpl", "None", "TRANSIENT">>},
      {}, {}, {<<"'Svc'", "RepoImpl", FALSE>>}, FALSE)

\* Hook, whose constructor has only parameters that the resolver skips,
\* under each lifetime, and RepoImpl, whose constructor takes only self
AppSkipped ==
  App(FALSE,
      {<<"Hook", "None", l>> : l \in LifeStyles}
        \cup {<<"RepoImpl", "None", "TRANSIENT">>},
      {}, {}, {}, FALSE)

\* Page, made from its annotated fields res and repo, under each lifetime;
\* Res comes from a coroutine factory or from a plain one
AppsFields ==
  {App(FALSE,
       {<<"Page", "None", l>>, <<"Repo", "None", "TRANSIENT">>},
       {<<Factory(k, FALSE), "Res", "TRANSIENT">>}, {}, {}, TRUE) :
     l \in LifeStyles, k \in {"plain", "coroutine"}}

\* a singleton class, a class bound after it, and an object of the
\* application pinned with add_instance
AppPinned ==
  [App(FALSE,
       {<<"Svc", "None", "SINGLETON">>, <<"Store", "None", "TRANSIENT">>},
       {}, {}, {}, FALSE)
     EXCEPT !.instances = {"Repo"}]

\* the arities a factory is written with
Arities == 0..3

\* Repo made by a factory of each accepted arity and Res by one with three
\* parameters; Svc needs Repo, and Ctl needs Svc through the exact alias of
\* its unannotated parameter
AppArity ==
  App(FALSE,
      {<<"Svc", "None", "TRANSIENT">>, <<"Ctl", "None", "TRANSIENT">>},
      {<<Taking(Factory("plain", FALSE), n), "Repo", "TRANSIENT">> :
         n \in Arities \ {3}}
        \cup {<<Taking(Factory("plain", FALSE), 3), "Res", "TRANSIENT">>},
      {}, {<<"'repository'", "Svc", FALSE>>}, FALSE)

Apps ==
  {AppLifetimes, AppBases, AppOwnType, AppCycle, AppAlias, AppFactories,
   AppReturns, AppGet, AppStrict, AppOrder, AppRaise, AppPartial, AppExec,
   AppArity, AppTeardown, AppAmbiguous, AppNameClash, AppSkipped}
    \cup AppsAwait \cup AppsFields \cup {AppPinned}

\* the keys an application asks for
AppKeys(a) ==
  {t[1] : t \in a.types} \cup {f[2] : f \in a.factories} \cup a.instances

(***************************************************************************)
(* State.                                                                  *)
(***************************************************************************)
VARIABLES
  app,        \* the application driving the container
  container,  \* the Container's slots
  builds,     \* how many Services objects the container has built
  heap,       \* the objects constructed so far
  scopes,     \* the ActivationScopes created so far
  returned,   \* what resolve/aresolve have returned: key, scope, value
  last,       \* the outcome of the last call
  tasks       \* the resolutions suspended in a user coroutine

vars == <<app, container, builds, heap, scopes, returned, last, tasks>>

\* the state after Container(strict=...), for an application of apps
Start(apps) ==
  /\ app \in apps
  /\ container = Container(app.strict)
  /\ builds = 0
  /\ heap = << >>
  /\ scopes = << >>
  /\ returned = {}
  /\ last = Outcome("Container", "", 0, NoErr, NoVal)
  /\ tasks = << >>

Init == Start(Apps)

Registered(op, arg, r) ==
  /\ container' = r.c
  /\ last' = Outcome(op, arg, 0, r.err, NoVal)
  /\ UNCHANGED <<app, builds, heap, scopes, returned, tasks>>

\* container.add_singleton / add_scoped / add_transient
AddType ==
  \E t \in app.types :
    Registered("bind", t[1], add_type(container, t[1], t[2], t[3]))

\* container.add_singleton_by_factory / add_scoped_by_factory /
\* add_transient_by_factory
RegisterFactory ==
  \E f \in app.factories :
    Registered("bind", f[2], register_factory(container, f[1], f[2], f[3]))

\* container.add_instance(t()): the application makes the object (no
\* provider, Services or scope has a part in it) and pins it
AddInstance ==
  \E t \in app.instances :
    LET r == add_instance(container, t, Obj(Len(heap) + 1))
    IN /\ Len(heap) < MaxInst
       /\ container' = r.c
       /\ heap' = Append(heap,
                         [type |-> t, args |-> << >>, by |-> 0,
                          cls |-> "application", gen |-> 0, scope |-> 0,
                          torn |-> 0, rank |-> 0, made |-> "obj",
                          passed |-> Passed(0, 0, "")])
       /\ last' = Outcome("bind", t, 0, r.err, NoVal)
       /\ UNCHANGED <<app, builds, scopes, returned, tasks>>

\* container.add_alias
AddAlias ==
  \E a \in app.aliases :
    Registered("add_alias", a[1], add_alias(container, a[1], a[2]))

\* container.set_alias
SetAlias ==
  \E a \in app.exacts :
    Registered("set_alias", a[1], set_alias(container, a[1], a[2], a[3]))

\* what a call of the property Container.provider leaves: r is its result
Provided(r) ==
  /\ container' = r.c
  /\ builds' = IF r.err = NoErr THEN builds + 1 ELSE builds
  /\ last' = Outcome("provider", "", 0, r.err, NoVal)
  /\ UNCHANGED <<app, heap, scopes, returned, tasks>>

\* container.provider
BuildProvider ==
  /\ ~container.provider.built
  /\ \E limit \in Limits, order \in IterOrders :
       Provided(provider(container, builds, limit, order))

\* the user scopes a call can be given: created by the application and not
\* yet exited
OpenScopes ==
  {s \in 1..Len(scopes) : ~scopes[s].throwaway /\ scopes[s].exited = "no"}

\* what a call of Services.get / aget that ends leaves to the caller: c is
\* the container, sc the scope the call ran in, got what it returned or
\* raised
Ended(via, key, sc, c, got, default) ==
  /\ Len(got.st.heap) <= MaxInst
  /\ Len(got.st.scopes) <= MaxScopes
  /\ container' = [c EXCEPT !.provider.provs = got.st.provs]
  /\ builds' = c.provider.gen
  /\ heap' = got.st.heap
  /\ scopes' = got.st.scopes
  /\ returned' =
       IF got.err # NoErr THEN returned
       ELSE returned \cup
              {[key |-> key, scope |-> sc, val |-> got.val,
                gen |-> c.provider.gen]}
  /\ Cardinality(returned') <= MaxResolved
  /\ last' = [Outcome(via, key, sc, got.err, got.val)
                EXCEPT !.default = default]
  /\ UNCHANGED app

\* the same for a call that ran without suspension
GotWith(via, key, sc, c, got, default) ==
  /\ Ended(via, key, sc, c, got, default)
  /\ UNCHANGED tasks

\* the same for a call that is given no default
Got(via, key, sc, c, got) == GotWith(via, key, sc, c, got, SENTINEL)

\* the state a provider call starts from: the Services of container c, the
\* heap, and the scopes, with a new ActivationScope when s = 0 (scope=None)
CallState(c, s) ==
  [provs |-> c.provider.provs, gen |-> c.provider.gen, heap |-> heap,
   scopes |-> IF s = 0 THEN Append(scopes, ActivationScope(TRUE)) ELSE scopes,
   parent |-> ""]

\* the scope a call runs in
CallScope(s) == IF s = 0 THEN Len(scopes) + 1 ELSE s

\* Services.get / aget on the Services of container c
Resolved(via, key, s, c) ==
  IF via = "resolve"
    THEN Got(via, key, CallScope(s), c,
             get(c.provider.map, key, CallScope(s), SENTINEL,
                 CallState(c, s)))
    ELSE Got(via, key, CallScope(s), c,
             aget(c.provider.map, key, CallScope(s), SENTINEL,
                  CallState(c, s)))

\* the call after the property Container.provider returned or raised (r)
ResolvedWith(via, key, s, r) ==
  IF r.err # NoErr
    THEN /\ container' = r.c
         /\ last' = Outcome(via, key, s, r.err, NoVal)
         /\ UNCHANGED <<app, builds, heap, scopes, returned, tasks>>
    ELSE Resolved(via, key, s, r.c)

\* container.resolve(key, scope) and container.aresolve(key, scope): the
\* provider property, then Services.get / aget; s = 0 is scope=None
ResolveVia(via, key, s) ==
  IF container.provider.built THEN Resolved(via, key, s, container)
  ELSE
    \E limit \in Limits, order \in IterOrders :
      ResolvedWith(via, key, s, provider(container, builds, limit, order))

Resolve ==
  \E key \in AppKeys(app), s \in {0} \cup OpenScopes :
    ResolveVia("resolve", key, s)

AResolve ==
  /\ app.async
  /\ \E key \in AppKeys(app), s \in {0} \cup OpenScopes :
       ResolveVia("aresolve", key, s)

\* the coroutine of Services.aget suspended in the user's coroutine: called
\* is what get returned, st the state it left (with the scope of the call)
Suspended(key, sc, st, called) ==
  /\ called.err = NoErr
  /\ isawaitable(called.val)
  /\ ~Hit(called.val.a, sc, st)
  /\ AwaitsUserCoroutineFirst(called.val.a, st.provs)
  /\ Len(st.scopes) <= MaxScopes
  /\ scopes' = st.scopes
  /\ tasks' = Append(tasks, [key |-> key, scope |-> sc, coro |-> called.val,
                             gen |-> st.gen])
  /\ last' = Outcome("suspend", key, sc, NoErr, NoVal)
  /\ UNCHANGED <<app, container, builds, heap, returned>>

\* task = create_task(container.aresolve(key, scope)), run up to the first
\* suspension: Services.get returns the provider's coroutine, aget awaits
\* it, its test of the memo or of the cache fails and the user's coroutine,
\* awaited next, suspends
AResolveSuspend ==
  /\ app.async
  /\ container.provider.built
  /\ Len(tasks) < MaxTasks
  /\ \E key \in AppKeys(app), s \in {0} \cup OpenScopes :
       Suspended(key, CallScope(s), CallState(container, s),
                 get(container.provider.map, key, CallScope(s), SENTINEL,
                     CallState(container, s)))

\* tasks without its element i
Without(i) == [j \in 1..(Len(tasks) - 1) |->
                 IF j < i THEN tasks[j] ELSE tasks[j + 1]]

\* the event loop resumes a suspended resolution: the user's coroutine
\* returns and the provider's __call__ runs on from its await to its end
AResume ==
  /\ container.provider.built
  /\ \E i \in 1..Len(tasks) :
       /\ tasks[i].gen = container.provider.gen
       /\ Ended("aresolve", tasks[i].key, tasks[i].scope, container,
                Miss(tasks[i].coro.a, tasks[i].scope,
                     [CallState(container, tasks[i].scope)
                        EXCEPT !.parent = tasks[i].coro.c]),
                SENTINEL)
       /\ tasks' = Without(i)

\* a key no application of the model binds
Stranger == "Store"

\* a truthy object of the application that no provider made
Seed == [k |-> "seed", a |-> 0, b |-> 0, c |-> ""]

\* container.provider.set(key, value) and container.provider[key] = value,
\* for a type or a name
ServicesSet ==
  /\ container.provider.built
  /\ \E key \in AppKeys(app) \cup {Stranger, class_name[Stranger]} :
       LET r == set(container.provider, key, Seed)
       IN /\ container' = [container EXCEPT !.provider = r.sv]
          /\ last' = Outcome("set", key, 0, r.err, NoVal)
  /\ UNCHANGED <<app, builds, heap, scopes, returned, tasks>>

\* the methods an application hands to exec: without parameter or with a
\* parameter annotated Res
Methods ==
  {Method(p, a, r, w, l) :
     p \in {<< >>, << "Res" >>}, a \in BOOLEAN, r \in BOOLEAN,
     w \in BOOLEAN, l \in BOOLEAN}

\* the scoped= arguments of exec: None, a dict without items, a dict that
\* seeds the parameter's type and a dict that seeds another key
Seeds ==
  {NoMapping, Mapping(<< >>), Mapping(<< Item("Res", Seed) >>),
   Mapping(<< Item(Stranger, Seed) >>)}

\* what the dict the caller passed as scoped holds in state st, where s is
\* the scope made with it: the cache of the scope if it is the same object,
\* and otherwise what it held when it was passed
CallerMapping(scoped, s, st) ==
  IF Adopted(scoped) THEN st.scopes[s].scoped_services ELSE scoped.items

\* what exec leaves: the executor is kept in Services._executors, r is
\* what the executor returned or raised
Executed(method, s, r) ==
  /\ Len(r.st.heap) <= MaxInst
  /\ container' = [container EXCEPT !.provider.provs = r.st.provs,
                                    !.provider.executors = @ \cup {method}]
  /\ heap' = r.st.heap
  /\ scopes' = r.st.scopes
  /\ last' = Outcome("exec", "", s, r.err, r.val)
  /\ UNCHANGED <<app, builds, returned, tasks>>

\* container.provider.exec(method, scoped), awaited when method is a
\* coroutine function: the executor is taken from Services._executors or
\* made by get_executor, which may raise, and then called
Exec ==
  /\ container.provider.built
  /\ Len(scopes) < MaxScopes
  /\ \E method \in Methods, scoped \in Seeds, py310 \in BOOLEAN :
       /\ method.async => app.async
       /\ IF method \notin container.provider.executors
              /\ MissingContext(method, py310)
            THEN /\ last' = Outcome("exec", "", 0,
                                    Err("FactoryMissingContextException",
                                        "", ""), NoVal)
                 /\ UNCHANGED <<app, container, builds, heap, scopes,
                                returned, tasks>>
            ELSE Executed(method, Len(scopes) + 1,
                          executor(container.provider.map, method, scoped,
                                   CallState(container, Len(scopes) + 1)))

\* the default= arguments a call is made with: none, None, 0
Defaults == {SENTINEL, NoVal, Zero}

\* container.provider.get(key, scope, default=d) on the built Services
ServicesGet ==
  /\ container.provider.built
  /\ \E key \in AppKeys(app) \cup {Stranger}, s \in {0} \cup OpenScopes,
        d \in Defaults :
       GotWith("get", key, CallScope(s), container,
               get(container.provider.map, key, CallScope(s), d,
                   CallState(container, s)), d)

\* scope = ActivationScope(provider, {key: v}) with v falsy; scope.__enter__()
EnterScopeWith ==
  /\ Len(scopes) < MaxScopes
  /\ \E key \in AppKeys(app), v \in {NoVal, Zero} :
       scopes' = Append(scopes,
                        ActivationScopeWith(Mapping(<< Item(key, v) >>)))
  /\ last' = Outcome("enter", "", Len(scopes) + 1, NoErr, NoVal)
  /\ UNCHANGED <<app, container, builds, heap, returned, tasks>>

\* scope = ActivationScope(); scope.__enter__() / __aenter__()
EnterScope ==
  /\ Len(scopes) < MaxScopes
  /\ scopes' = Append(scopes, ActivationScope(FALSE))
  /\ last' = Outcome("enter", "", Len(scopes) + 1, NoErr, NoVal)
  /\ UNCHANGED <<app, container, builds, heap, returned, tasks>>

Exited(op, s, st) ==
  /\ heap' = st.heap
  /\ scopes' = st.scopes
  /\ last' = Outcome(op, "", s, NoErr, NoVal)
  /\ UNCHANGED <<app, container, builds, returned, tasks>>

\* scope.__exit__()
ExitScope ==
  \E s \in OpenScopes :
    Exited("exit", s, exit(s, [heap |-> heap, scopes |-> scopes]))

\* await scope.__aexit__()
AExitScope ==
  /\ app.async
  /\ \E s \in OpenScopes :
       Exited("aexit", s, aexit(s, [heap |-> heap, scopes |-> scopes]))

Next ==
  \/ AddType
  \/ RegisterFactory
  \/ AddAlias
  \/ SetAlias
  \/ BuildProvider
  \/ Resolve
  \/ AResolve
  \/ EnterScope
  \/ ExitScope
  \/ AExitScope
  \/ ServicesGet
  \/ EnterScopeWith
  \/ AResolveSuspend
  \/ AResume
  \/ Exec
  \/ ServicesSet
  \/ AddInstance

Spec == Init /\ [][Next]_vars

(***************************************************************************)
(* The container under one family of applications at a time, with the      *)
(* calls that family makes.                                                *)
(***************************************************************************)
NextTypes ==
  \/ AddType
  \/ BuildProvider
  \/ Resolve
  \/ EnterScope
  \/ ExitScope

NextAliases ==
  \/ AddType
  \/ AddAlias
  \/ SetAlias
  \/ BuildProvider
  \/ Resolve
  \/ EnterScope
  \/ ExitScope

NextFactories ==
  \/ RegisterFactory
  \/ BuildProvider
  \/ Resolve
  \/ AResolve
  \/ EnterScope
  \/ ExitScope
  \/ AExitScope

SpecLifetimes == Start({AppLifetimes}) /\ [][NextTypes]_vars

SpecBases == Start({AppBases, AppOwnType}) /\ [][NextTypes]_vars

SpecCycle == Start({AppCycle}) /\ [][NextTypes]_vars

SpecAliases == Start({AppAlias}) /\ [][NextAliases]_vars

SpecFactories == Start({AppFactories}) /\ [][NextFactories]_vars

SpecTeardown == Start({AppTeardown}) /\ [][NextFactories]_vars

\* the calls of an application that names its aliases itself
NextAmbiguous ==
  \/ AddType
  \/ AddAlias
  \/ BuildProvider
  \/ Resolve

SpecAmbiguous == Start({AppAmbiguous}) /\ [][NextAmbiguous]_vars

\* the calls of an application that uses Services.get directly
NextGet ==
  \/ AddType
  \/ BuildProvider
  \/ ServicesGet
  \/ EnterScope
  \/ EnterScopeWith
  \/ ExitScope

\* the calls of an application of types made from factory products
NextOrder ==
  \/ AddType
  \/ RegisterFactory
  \/ BuildProvider
  \/ AResolve

SpecOrder == Start({AppOrder}) /\ [][NextOrder]_vars

SpecStrict == Start({AppStrict}) /\ [][NextAliases]_vars

SpecReturns == Start({AppReturns}) /\ [][NextFactories]_vars

SpecGet == Start({AppGet}) /\ [][NextGet]_vars

\* the calls of an application that resolves without scopes of its own
NextPartial ==
  \/ AddType
  \/ BuildProvider
  \/ Resolve

SpecPartial == Start({AppPartial}) /\ [][NextPartial]_vars

\* the calls of an application with factories of several arities
NextArity ==
  \/ AddType
  \/ RegisterFactory
  \/ SetAlias
  \/ BuildProvider
  \/ Resolve

SpecArity == Start({AppArity}) /\ [][NextArity]_vars

\* the calls of an application that sets exact aliases
NextExact ==
  \/ AddType
  \/ SetAlias
  \/ BuildProvider
  \/ Resolve

SpecNameClash == Start({AppNameClash}) /\ [][NextExact]_vars

SpecSkipped == Start({AppSkipped}) /\ [][NextPartial]_vars

\* the calls of an application that pins an object
NextPinned ==
  \/ AddType
  \/ AddInstance
  \/ BuildProvider
  \/ Resolve

SpecPinned == Start({AppPinned}) /\ [][NextPinned]_vars

\* the calls of an application that resolves with and without an event loop
NextFields ==
  \/ AddType
  \/ RegisterFactory
  \/ BuildProvider
  \/ Resolve
  \/ AResolve

SpecFields == Start(AppsFields) /\ [][NextFields]_vars

\* the calls of an application that uses its Services as a dict
NextSet ==
  \/ AddType
  \/ BuildProvider
  \/ ServicesGet
  \/ ServicesSet
  \/ Exec

SpecSet == Start({AppGet}) /\ [][NextSet]_vars

\* the calls of an application that runs its methods through exec
NextExec ==
  \/ RegisterFactory
  \/ BuildProvider
  \/ Exec

SpecExec == Start({AppExec}) /\ [][NextExec]_vars

\* the calls of an application whose factories may raise
NextRaise ==
  \/ AddType
  \/ RegisterFactory
  \/ BuildProvider
  \/ Resolve
  \/ AResolve
  \/ EnterScope

SpecRaise == Start({AppRaise}) /\ [][NextRaise]_vars

\* the calls of an application that resolves in concurrent tasks
NextAwait ==
  \/ AddType
  \/ RegisterFactory
  \/ BuildProvider
  \/ EnterScope
  \/ AResolve
  \/ AResolveSuspend
  \/ AResume

SpecAwait == Start(AppsAwait) /\ [][NextAwait]_vars

(***************************************************************************)
(* Properties.                                                             *)
(***************************************************************************)
Objects == 1..Len(heap)

\* the lifetime a bound key was registered with (a key is bound once);
\* "none" for a key that is only an alias
LifeOf(key) ==
  IF Has(container.map, key) THEN Get(container.map, key).life_style
  ELSE "none"

\* the objects whose exit is on a cleanup stack of scope s
OnStacks(s) ==
  {scopes[s].stack[j] : j \in 1..Len(scopes[s].stack)}
    \cup {scopes[s].astack[j] : j \in 1..Len(scopes[s].astack)}

\* how many exits of object i wait on the cleanup stacks of all scopes
Registrations(i) ==
  Cardinality({<<s, j>> \in (1..Len(scopes)) \X (1..MaxInst) :
                 j <= Len(scopes[s].stack) /\ scopes[s].stack[j] = i})
  + Cardinality({<<s, j>> \in (1..Len(scopes)) \X (1..MaxInst) :
                   j <= Len(scopes[s].astack) /\ scopes[s].astack[j] = i})

ContextManagerSingletons ==
  {"SingletonContextManagerFactoryTypeProvider",
   "AsyncSingletonContextManagerFactoryTypeProvider"}

\* C1: all resolutions of a singleton-bound key made on one Services return
\* the identical instance, which its provider constructs at most once; two
\* resolutions of a transient-bound key, each made without a scope, return
\* distinct instances.
C1_SingletonIdenticalTransientDistinct ==
  \A r1, r2 \in returned :
    (r1.key = r2.key /\ r1.gen = r2.gen) =>
      /\ LifeOf(r1.key) = "SINGLETON" =>
           /\ r1.val = r2.val
           /\ Cardinality({i \in Objects :
                             /\ heap[i].gen = r1.gen
                             /\ heap[i].cls \in SingletonClasses
                             /\ heap[i].type =
                                  Get(container.map, r1.key).concrete_type})
                <= 1
      /\ (/\ LifeOf(r1.key) = "TRANSIENT"
          /\ r1 # r2
          /\ scopes[r1.scope].throwaway
          /\ scopes[r2.scope].throwaway) => r1.val # r2.val

\* C2: with Svc depending on Repo by declared type: a singleton Repo is
\* constructed at most once per Services, a scoped Repo at most once per
\* activation scope, and with a transient Repo every Svc constructed holds a
\* Repo constructed for it alone, in the same call.
C2_DependencyLifetimes ==
  /\ \A i, j \in Objects :
       (i # j /\ heap[i].type = "Repo" /\ heap[j].type = "Repo") =>
         /\ ~(/\ heap[i].cls \in SingletonClasses
              /\ heap[j].cls \in SingletonClasses
              /\ heap[i].gen = heap[j].gen)
         /\ ~(/\ heap[i].cls \in ScopedClasses
              /\ heap[j].cls \in ScopedClasses
              /\ heap[i].scope = heap[j].scope)
  /\ \A i \in Objects :
       heap[i].type = "Svc" =>
         /\ Len(heap[i].args) = 1
         /\ heap[i].args[1].k = "obj"
         /\ heap[heap[i].args[1].a].type = "Repo"
         /\ LifeOf("Repo") = "TRANSIENT" =>
              /\ heap[i].args[1].a = i - 1
              /\ \A j \in Objects :
                   (j # i /\ heap[j].type = "Svc") =>
                     heap[j].args # heap[i].args

\* two Svc objects constructed with one Services, each holding its own
\* transient Repo
C2_Witness ==
  \E i, j \in Objects :
    /\ i < j
    /\ heap[i].type = "Svc" /\ heap[j].type = "Svc"
    /\ heap[i].gen = heap[j].gen
    /\ heap[i].args # heap[j].args
    /\ LifeOf("Repo") = "TRANSIENT"

\* C3: within one Services, two resolutions of a scoped-bound key return the
\* same instance if and only if they were made in the same activation scope
\* (the throwaway scope of a call made without a scope being a scope of its
\* own).
C3_ScopedOncePerScope ==
  \A r1, r2 \in returned :
    (r1.key = r2.key /\ r1.gen = r2.gen /\ LifeOf(r1.key) = "SCOPED") =>
      (r1.scope = r2.scope <=> r1.val = r2.val)

\* C4: a bind on a key that is already bound fails with
\* OverridingServiceException and leaves the container as it was: bindings,
\* both alias tables and the cached Services.
C4_DuplicateBindChangesNothing ==
  [][(last'.op = "bind" /\ Has(container.map, last'.arg))
       => (/\ last'.err.kind = "OverridingServiceException"
           /\ container' = container)]_vars

\* a duplicate bind has just failed on a container that holds a built
\* Services and implicit aliases
C4_Witness ==
  /\ last.op = "bind"
  /\ last.err.kind = "OverridingServiceException"
  /\ container.provider.built
  /\ Len(container.aliases) > 0
  /\ Len(heap) > 0

\* C5: with Ping and Pong bound, each needing the other, every build ends
\* with CircularDependencyException and the error names both Ping and Pong.
C5_CycleReportedWithBothTypes ==
  (/\ Has(container.map, "Ping")
   /\ Has(container.map, "Pong")
   /\ last.op \in {"provider", "resolve"}) =>
     /\ last.err.kind = "CircularDependencyException"
     /\ {last.err.e1, last.err.e2} = {"Ping", "Pong"}

\* C6: when a build has just failed because the unannotated parameter
\* repository of Ctl had no alias, then registering the alias (add_alias or
\* set_alias to the bound RepoImpl) succeeds, and a build made with that
\* alias registered succeeds.
C6_RetryAfterMissingAlias ==
  [][/\ (/\ last.err.kind = "CannotResolveParameterException"
         /\ last.err.e1 = "'repository'"
         /\ ~Has(container.exact_aliases, "'repository'")
         /\ Has(container.aliases, "'repository'") =>
              Get(container.aliases, "'repository'") = {}
         /\ Has(container.map, "RepoImpl")
         /\ last'.op \in {"add_alias", "set_alias"})
          => last'.err = NoErr
     /\ (/\ last.op = "set_alias"
         /\ last.err = NoErr
         /\ Has(container.map, "RepoImpl")
         /\ Has(container.map, "Ctl")
         /\ last'.op = "provider")
          => last'.err = NoErr]_vars

C9_LaterResolutionsReturnCachedValue ==
  \A p \in 1..Len(container.provider.provs) :
    (/\ container.provider.provs[p].cls = "AsyncSingletonFactoryTypeProvider"
     /\ container.provider.provs[p].instance # NoVal
     /\ last.op \in {"resolve", "aresolve"}
     /\ last.err = NoErr) =>
       /\ last.val = container.provider.provs[p].instance
       /\ Cardinality({i \in Objects :
                         /\ heap[i].by = p
                         /\ heap[i].gen = container.provider.gen}) = 1

\* C10: every successful resolution of a transient-bound key returns an
\* object constructed by that very call.
C10_TransientAlwaysNew ==
  [][(/\ last'.op = "resolve"
      /\ last'.err = NoErr
      /\ LifeOf(last'.arg) = "TRANSIENT")
       => (last'.val.k = "obj" /\ last'.val.a > Len(heap))]_vars

\* C11: a singleton provider invokes its factory or constructor at most
\* once per Services, whatever the invocation gave back (None included).
C11_SingletonInvokedOnce ==
  \A p \in 1..Len(container.provider.provs) :
    container.provider.provs[p].cls \in SingletonClasses =>
      Cardinality({i \in Objects :
                     /\ heap[i].by = p
                     /\ heap[i].gen = container.provider.gen
                     /\ heap[i].made # "raise"}) <= 1

\* C12: when the scoped cache of the scope given to get holds the key,
\* whatever the cached value (a falsy one included), get returns the cached
\* value and nothing is constructed.
C12_CachedValueReturnedFirst ==
  [][(/\ last'.op = "get"
      /\ last'.scope <= Len(scopes)
      /\ Has(scopes[last'.scope].scoped_services, last'.arg))
       => (/\ last'.err = NoErr
           /\ last'.val = Get(scopes[last'.scope].scoped_services, last'.arg)
           /\ heap' = heap)]_vars

\* C13: get on a key that is neither in the scope's cache nor in the
\* Services map returns the default it is given (None and 0 included)
\* without error, and raises CannotResolveTypeException for the key when it
\* is given none; the container with its Services, the objects and the
\* scopes that existed are as they were.
C13_DefaultOrUnresolvable ==
  [][(/\ last'.op = "get"
      /\ ~Has(container.provider.map, last'.arg)
      /\ last'.scope <= Len(scopes) =>
            ~Has(scopes[last'.scope].scoped_services, last'.arg))
       => (/\ IF last'.default # SENTINEL
                THEN last'.err = NoErr /\ last'.val = last'.default
                ELSE /\ last'.err.kind = "CannotResolveTypeException"
                     /\ last'.err.e1 = last'.arg
           /\ container' = container
           /\ heap' = heap
           /\ \A s \in 1..Len(scopes) : scopes'[s] = scopes[s])]_vars

\* get with default None on an unbound key has just returned None, in a
\* scope whose cache holds a value made by an earlier call
C13_Witness ==
  /\ last.op = "get"
  /\ last.arg = Stranger
  /\ last.default = NoVal
  /\ last.err = NoErr
  /\ last.val = NoVal
  /\ last.scope <= Len(scopes)
  /\ \E j \in 1..Len(scopes[last.scope].scoped_services) :
       scopes[last.scope].scoped_services[j].v.k = "obj"

\* the type registered as alias under a name: the exact alias if there is
\* one, otherwise the one of the implicit alias table; "None" without alias
AliasTarget(c, name) ==
  IF Has(c.exact_aliases, name) THEN Get(c.exact_aliases, name)
  ELSE IF Has(c.aliases, name) /\ Get(c.aliases, name) # {}
    THEN CHOOSE t \in Get(c.aliases, name) : TRUE
  ELSE "None"

\* the type of the provider that Services sv calls for parameter i of the
\* constructor of the type bound to key
ParameterType(sv, key, i) ==
  sv.provs[sv.provs[Get(sv.map, key)].args_callbacks[i]].type

\* C14: in a non-strict container with Ctl(repository) bound, a build made
\* while a bound type is registered as alias under 'repository' succeeds and
\* gives Ctl the provider of that type (the exact alias before the implicit
\* one); a build made without such an alias fails with
\* CannotResolveParameterException naming 'repository' and Ctl.
C14_UnannotatedParameterByAlias ==
  [][(/\ ~container.strict
      /\ ~container.provider.built
      /\ last'.op \in {"provider", "resolve"}
      /\ Has(container.map, "Ctl")
      /\ AliasTarget(container, "'repository'") # "None" =>
            Has(container.map, AliasTarget(container, "'repository'")))
       => IF AliasTarget(container, "'repository'") # "None"
            THEN /\ container'.provider.built
                 /\ ParameterType(container'.provider, "Ctl", 1)
                      = AliasTarget(container, "'repository'")
            ELSE /\ last'.err.kind = "CannotResolveParameterException"
                 /\ last'.err.e1 = "'repository'"
                 /\ last'.err.e2 = "Ctl"]_vars

\* C15: in a strict container, after every call: both alias tables are
\* empty; add_alias and set_alias have failed with
\* InvalidOperationInStrictMode; and a build made with Ctl(repository)
\* bound has failed with CannotResolveParameterException for 'repository'.
C15_StrictDisablesAliases ==
  [][container.strict
       => (/\ container'.aliases = << >>
           /\ container'.exact_aliases = << >>
           /\ last'.op \in {"add_alias", "set_alias"} =>
                 /\ last'.err.kind = "InvalidOperationInStrictMode"
                 /\ container' = container
           /\ (/\ ~container.provider.built
               /\ last'.op \in {"provider", "resolve"}
               /\ Has(container.map, "Ctl")) =>
                 /\ last'.err.kind = "CannotResolveParameterException"
                 /\ last'.err.e1 = "'repository'"
                 /\ ~container'.provider.built)]_vars

\* on a strict container that has built a Services before and now holds
\* Ctl, a build has just failed for the parameter without type
C15_Witness ==
  /\ container.strict
  /\ builds >= 1
  /\ Len(heap) >= 1
  /\ Has(container.map, "Ctl")
  /\ Has(container.map, "RepoImpl")
  /\ last.op = "provider"
  /\ last.err.kind = "CannotResolveParameterException"

\* C16: a successful bind leaves the container without cached Services,
\* the cached Services always holds a provider for every bound key, and a
\* successful resolve of a bound key leaves such a Services cached.
C16_BindInvalidatesServices ==
  [][/\ container'.provider.built =>
          Keys(container'.map) \subseteq Keys(container'.provider.map)
     /\ (last'.op = "bind" /\ last'.err = NoErr) =>
          ~container'.provider.built
     /\ (last'.op = "resolve" /\ last'.err = NoErr) =>
          container'.provider.built]_vars

\* a resolve has returned an object of the second Services the container
\* built, after objects were made by the first
C16_Witness ==
  /\ builds = 2
  /\ last.op = "resolve"
  /\ last.err = NoErr
  /\ last.val.k = "obj"
  /\ heap[last.val.a].gen = 2
  /\ \E i \in Objects : heap[i].gen = 1
  /\ Cardinality(Keys(container.map)) = 2

\* C17: whenever the container holds a cached Services, every name that is
\* registered as alias of a bound type is a key of that Services and leads
\* to the provider of the alias's target.
C17_ServicesReflectsAliases ==
  (container.provider.built /\ ~container.strict) =>
    \A name \in Keys(container.aliases) \cup Keys(container.exact_aliases) :
      Has(container.provider.map, AliasTarget(container, name)) =>
        /\ Has(container.provider.map, name)
        /\ Get(container.provider.map, name)
             = Get(container.provider.map, AliasTarget(container, name))

\* object i is a value made for the cache that provider pid of the current
\* Services reads when called with scope s: its own memo for a singleton
\* provider, the cache of scope s under its type for a scoped one
Materializes(i, pid, s) ==
  /\ heap[i].type = container.provider.provs[pid].type
  /\ heap[i].cls \in SingletonClasses =>
       heap[i].by = pid /\ heap[i].gen = container.provider.gen
  /\ heap[i].cls \in ScopedClasses => heap[i].scope = s

\* C18: every Duo(first: Res, second: RepoImpl) constructed, by a sync, a
\* mixed or an all-async provider of any lifetime, holds as first a Res and
\* as second a RepoImpl, and with transient dependencies the Res was
\* complete before the factory of RepoImpl was invoked, which was complete
\* before Duo was constructed: no other invocation lies between them.
C18_DependenciesInDeclarationOrder ==
  \A i \in Objects :
    heap[i].type = "Duo" =>
      /\ Len(heap[i].args) = 2
      /\ heap[i].args[1].k = "obj" /\ heap[i].args[2].k = "obj"
      /\ heap[heap[i].args[1].a].type = "Res"
      /\ heap[heap[i].args[2].a].type = "RepoImpl"
      /\ heap[i].args[1].a = i - 2
      /\ heap[i].args[2].a = i - 1

\* a Duo made by a provider that awaits the awaitable arguments only: the
\* first dependency came from an async factory, the second from a sync one
C18_Witness ==
  \E i \in Objects :
    /\ heap[i].type = "Duo"
    /\ heap[i].cls \in MixedClasses
    /\ heap[heap[i].args[1].a].cls = "AsyncFactoryTypeProvider"
    /\ heap[heap[i].args[2].a].cls = "FactoryTypeProvider"

\* C19: a resolution of a key with a cached lifetime that completes returns
\* the value the first completed materialization made (for that provider,
\* and for a scoped one in that scope), also when it was suspended inside
\* its own creation of the value while that first materialization
\* completed.
C19_FirstMaterializationIsTheValue ==
  (/\ last.op = "aresolve"
   /\ last.err = NoErr
   /\ container.provider.built
   /\ Has(container.provider.map, last.arg)
   /\ container.provider.provs[Get(container.provider.map, last.arg)].cls
        \in SingletonClasses \cup ScopedClasses) =>
    \E i \in Objects :
      /\ Materializes(i, Get(container.provider.map, last.arg), last.scope)
      /\ \A j \in Objects :
           Materializes(j, Get(container.provider.map, last.arg), last.scope)
             => i <= j
      /\ last.val = Obj(i)

\* the call that just ended ran the provider of Svc in the Services: it was
\* container.resolve or aresolve of Svc, the Services were built and hold
\* Svc, and the provider's body ran (a sync resolve of an async provider
\* only gets its coroutine object)
SvcProviderRan ==
  /\ last'.arg = "Svc"
  /\ container'.provider.built
  /\ Has(container'.provider.map, "Svc")
  /\ \/ last'.op = "aresolve"
     \/ /\ last'.op = "resolve"
        /\ ~iscoroutinefunction(
              container'.provider.provs[Get(container'.provider.map, "Svc")])

\* C20: in an application whose factory of Repo raises, every call that
\* runs the provider of Svc(repo: Repo) invokes that factory exactly once
\* (no retry, and a new attempt on every call), the caller gets the
\* factory's error, no Svc is constructed, the singleton memo of Svc stays
\* empty and the scope of the call has no entry for Svc.
C20_DependencyErrorPropagates ==
  [][SvcProviderRan =>
       /\ Len(heap') = Len(heap) + 1
       /\ heap'[Len(heap')].type = "Repo"
       /\ heap'[Len(heap')].made = "raise"
       /\ last'.err = Err("FactoryError", "Repo", "")
       /\ last'.val = NoVal
       /\ \A i \in 1..Len(heap') : heap'[i].type # "Svc"
       /\ container'.provider.provs[
            Get(container'.provider.map, "Svc")].instance = NoVal
       /\ ~Has(scopes'[last'.scope].scoped_services, "Svc")]_vars

\* a singleton Svc was asked for twice on the same Services, in a scope of
\* the application: both calls invoked the raising factory and the last
\* one raised its error
C20_Witness ==
  /\ last.arg = "Svc"
  /\ last.op \in {"resolve", "aresolve"}
  /\ last.scope \in OpenScopes
  /\ last.err = Err("FactoryError", "Repo", "")
  /\ container.provider.built
  /\ Has(container.provider.map, "Svc")
  /\ container.provider.provs[Get(container.provider.map, "Svc")].cls
       \in SingletonClasses
  /\ \E i, j \in Objects :
       /\ i < j
       /\ heap[i].made = "raise" /\ heap[j].made = "raise"
       /\ heap[i].gen = container.provider.gen
       /\ heap[j].gen = container.provider.gen

\* the parameter of index i of the class bound under key in container c is
\* annotated with a type that c does not bind
MissingDependency(c, key, i) ==
  /\ Has(c.map, key)
  /\ Get(c.map, key).res = "DynamicResolver"
  /\ i \in 1..Len(Params[Get(c.map, key).concrete_type])
  /\ Params[Get(c.map, key).concrete_type][i].annotation # Empty
  /\ ~Has(c.map, Params[Get(c.map, key).concrete_type][i].annotation)

\* C21: while some bound type has a dependency that is not bound, every
\* access to container.provider and every resolve of any key (also of a key
\* that needs nothing) ends with CannotResolveParameterException naming such
\* a parameter and its class, no Services is cached or counted, nothing is
\* constructed and the registry is as before.
C21_BuildValidatesWholeConfiguration ==
  [][(/\ last'.op \in {"provider", "resolve"}
      /\ \E key \in Types, i \in 1..2 : MissingDependency(container, key, i))
       => /\ \E key \in Types, i \in 1..2 :
               /\ MissingDependency(container, key, i)
               /\ last'.err =
                    Err("CannotResolveParameterException",
                        Params[Get(container.map, key).concrete_type][i].name,
                        Get(container.map, key).concrete_type)
          /\ ~container'.provider.built
          /\ builds' = builds
          /\ heap' = heap
          /\ returned' = returned
          /\ container'.map = container.map]_vars

\* RepoImpl, which needs nothing, was asked for while Svc was bound without
\* Repo: the call raised the build's error
C21_Witness ==
  /\ last.op = "resolve"
  /\ last.arg = "RepoImpl"
  /\ Has(container.map, "RepoImpl")
  /\ MissingDependency(container, "Svc", 1)
  /\ last.err = Err("CannotResolveParameterException", "'repo'", "Svc")

\* C22: when exec has finished, whether the method was sync or async and
\* whether it returned or raised (or a getter raised), the scope exec made
\* (none, when get_executor refused the method: scope 0) has empty cleanup
\* stacks and an empty cache, and every object entered through a context
\* manager in that scope has been torn down once.
C22_ExecReleasesItsScope ==
  (last.op = "exec" /\ last.scope # 0) =>
    /\ scopes[last.scope].exited # "no"
    /\ scopes[last.scope].stack = << >>
    /\ scopes[last.scope].astack = << >>
    /\ scopes[last.scope].scoped_services = << >>
    /\ \A i \in Objects :
         (heap[i].scope = last.scope
            /\ heap[i].cls \in StackClasses \cup AStackClasses)
           => heap[i].torn = 1

\* exec of a coroutine method that raised, after its body had awaited a
\* value entered on the async stack, and of a sync method that raised after
\* a getter had entered a value on the sync stack
C22_Witness ==
  /\ last.op = "exec"
  /\ last.err = Err("MethodError", "", "")
  /\ \E i \in Objects :
       /\ heap[i].scope = last.scope
       /\ heap[i].cls \in StackClasses \cup AStackClasses
       /\ heap[i].torn = 1

\* C23: as long as the container keeps the same Services object, the
\* key -> provider map of that Services has the same entries after every
\* step (get, exec, set, item access and assignment).
C23_ServicesMapImmutable ==
  [][(/\ container.provider.built
      /\ container'.provider.built
      /\ container'.provider.gen = container.provider.gen)
       => container'.provider.map = container.provider.map]_vars

\* the objects the step under way has added to the heap
Fresh == (Len(heap) + 1)..Len(heap')

\* object d of the new heap was made as an argument for the construction
\* of object i
ArgumentOf(d, i) ==
  \E j \in 1..Len(heap'[i].args) : heap'[i].args[j] = Obj(d)

\* the registrations of the container made with a factory
FactoryRegistrations ==
  {i \in 1..Len(container.map) :
     container.map[i].v.res = "FactoryResolver"}

\* C24 as stated: a factory of 0, 1 or 2 parameters is bound in the wrapper
\* of its arity and called with nothing, with the scope of the call, or
\* with that scope and the requested type: the type it is registered for or
\* the key the caller asked the container for; a factory of three
\* parameters is refused with InvalidFactory and the container is as
\* before.
C24_FactoryArityNormalized ==
  [][/\ \A r \in FactoryRegistrations :
          /\ container.map[r].v.factory.arity <= 2
          /\ container.map[r].v.factory
               = check_factory(container.map[r].v.factory)
     /\ (last'.op = "bind" /\ last'.arg = "Res")
          => (last'.err = Err("InvalidFactory", "Res", "")
                /\ container' = container)
     /\ \A i \in Fresh :
          heap'[i].cls \in FactoryClasses =>
            /\ heap'[i].passed.n = container'.provider.provs[
                                     heap'[i].by].factory.arity
            /\ heap'[i].passed.n >= 1 => heap'[i].passed.scope = last'.scope
            /\ heap'[i].passed.n = 2 =>
                 heap'[i].passed.type \in {heap'[i].type, last'.arg}]_vars

\* C24 amended: the same, the second argument being the provider's
\* parent_type: the key asked of the container when the factory's product
\* is what the caller gets, and the class under construction when the
\* product is an argument of its constructor.
C24_FactoryGetsParentType ==
  [][/\ \A r \in FactoryRegistrations :
          /\ container.map[r].v.factory.arity <= 2
          /\ container.map[r].v.factory.wrapper
               = (CASE container.map[r].v.factory.arity = 0 ->
                         "FactoryWrapperNoArgs"
                    [] container.map[r].v.factory.arity = 1 ->
                         "FactoryWrapperContextArg"
                    [] OTHER -> "")
     /\ (last'.op = "bind" /\ last'.arg = "Res")
          => (last'.err = Err("InvalidFactory", "Res", "")
                /\ container' = container)
     /\ \A i \in Fresh :
          heap'[i].cls \in FactoryClasses =>
            /\ heap'[i].passed.n = container'.provider.provs[
                                     heap'[i].by].factory.arity
            /\ heap'[i].passed.n >= 1 => heap'[i].passed.scope = last'.scope
            /\ heap'[i].passed.n = 2 =>
                 /\ \A d \in Fresh :
                      ArgumentOf(i, d) => heap'[i].passed.type = heap'[d].type
                 /\ (\A d \in Fresh : ~ArgumentOf(i, d))
                      => heap'[i].passed.type = last'.arg]_vars

\* Ctl was resolved: its Svc was made with a Repo from a factory of two
\* parameters, called with the scope and Svc
C24_Witness ==
  /\ last.op = "resolve"
  /\ last.arg = "Ctl"
  /\ last.err = NoErr
  /\ \E i \in Objects :
       /\ heap[i].type = "Repo"
       /\ heap[i].passed = Passed(2, last.scope, "Svc")
       /\ heap[i + 1].type = "Svc"
       /\ heap[i + 1].args = << Obj(i) >>

\* a sequence that holds no element twice
NoRepeat(seq) ==
  \A i, j \in 1..Len(seq) : seq[i] = seq[j] => i = j

\* C25: in a build pass a type that is already on the context's chain is
\* not descended into again: the chain a call of Container.provider ends
\* with holds no type twice, and the pass that meets a cycle fails with
\* CircularDependencyException whatever the stack headroom.
C25_ChainHoldsNoTypeTwice ==
  [][\A limit \in Limits, order \in IterOrders :
       (/\ ~container.provider.built
        /\ last'.op = "provider"
        /\ container' = provider(container, builds, limit, order).c
        /\ last'.err = provider(container, builds, limit, order).err)
         => NoRepeat(build_provider(container, limit, order).dynamic_chain)
     ]_vars

\* C26: once no resolution is suspended and every scope the application
\* entered has been exited, by __exit__ or by __aexit__, no exit of a
\* context manager is left on a cleanup stack of any scope, the scopes
\* Services.get made for calls without a scope included.  (An exit that is
\* left on a stack is never run by the library: the code after the yield of
\* the factory runs only when the stack is unwound.)
C26_NoTeardownLeftPending ==
  (/\ tasks = << >>
   /\ OpenScopes = {}) =>
     \A s \in 1..Len(scopes) : OnStacks(s) = {}

\* C27: in a scope that has been exited the cache is empty, and of two
\* objects whose exits were registered on the scope and have run, the one
\* registered later was torn down first, whichever of the two cleanup
\* stacks each was registered on.
C27_TeardownsInReverseOrder ==
  \A s \in 1..Len(scopes) :
    scopes[s].exited # "no" =>
      /\ scopes[s].scoped_services = << >>
      /\ \A i, j \in Objects :
           (/\ i < j
            /\ heap[i].scope = s /\ heap[j].scope = s
            /\ heap[i].torn = 1 /\ heap[j].torn = 1)
             => heap[j].rank < heap[i].rank

\* C28: a resolution that found the memo of a singleton provider, or the
\* scope's cache for a scoped one, empty and was suspended in the user's
\* coroutine does not test again when it resumes: it invokes what makes the
\* value, returns the new object and assigns it, whatever a resolution that
\* completed in the meantime has left in the memo or in the cache.
C28_CheckThenCreateUnguarded ==
  [][\A i \in 1..Len(tasks) :
       (/\ tasks' = Without(i)
        /\ last'.op = "aresolve"
        /\ last'.arg = tasks[i].key
        /\ last'.err = NoErr)
         => /\ Len(heap') > Len(heap)
            /\ last'.val = Obj(Len(heap'))
            /\ heap'[Len(heap')].by = tasks[i].coro.a
            /\ heap'[Len(heap')].cls \in SingletonClasses =>
                 container'.provider.provs[tasks[i].coro.a].instance
                   = last'.val
            /\ heap'[Len(heap')].cls \in ScopedClasses =>
                 Get(scopes'[tasks[i].scope].scoped_services,
                     heap'[Len(heap')].type) = last'.val]_vars

\* two first resolutions of an async factory singleton found the memo
\* empty, one of them while the other was suspended in the factory, and
\* both have ended: the factory of the one provider was invoked twice for
\* the same Services, and the memo holds the second object
C28_Witness ==
  /\ last.op = "aresolve"
  /\ tasks = << >>
  /\ \E i, j \in Objects :
       /\ i < j
       /\ heap[i].cls = "AsyncSingletonFactoryTypeProvider"
       /\ heap[i].by = heap[j].by
       /\ heap[i].gen = heap[j].gen
       /\ heap[j].gen = container.provider.gen
       /\ container.provider.provs[heap[j].by].instance = Obj(j)

\* C29: a build, made by container.provider or on behalf of resolve,
\* succeeding or failing, leaves _map, _aliases and _exact_aliases with the
\* entries they had before it.
C29_BuildReadOnlyOnRegistry ==
  [][last'.op \in {"provider", "resolve"} =>
       /\ container'.map = container.map
       /\ container'.aliases = container.aliases
       /\ container'.exact_aliases = container.exact_aliases]_vars

\* the names of _aliases of container c that have more than one candidate
Ambiguous(c) ==
  {c.aliases[i].k : i \in {j \in 1..Len(c.aliases) :
                             Cardinality(c.aliases[j].v) > 1}}

\* C30: while a name of _aliases has more than one candidate type, every
\* build, made by container.provider or on behalf of resolve, fails and no
\* Services is cached: the name is given to no candidate, be it the name of
\* an unannotated parameter or a name of the Services map.
C30_AmbiguousAliasFailsBuild ==
  [][(/\ last'.op \in {"provider", "resolve"}
      /\ ~container.provider.built
      /\ Ambiguous(container) # {})
       => /\ last'.err # NoErr
          /\ ~container'.provider.built]_vars

\* C31: in the map of a Services that was built, every key holds the
\* provider that the pass placed there first: the class name of a bound
\* type holds the provider of that type (no alias of the same name has
\* replaced it), and a build that would place another provider there fails
\* with OverridingServiceException.
C31_NoEntrySilentlyReplaced ==
  container.provider.built =>
    \A i \in 1..Len(container.map) :
      Get(container.provider.map, class_name[container.map[i].k])
        = Get(container.provider.map, container.map[i].k)

\* C32: a Services built from Svc(repo: Repo) and Repo, bound in either
\* order, holds one provider for each binding (each resolver was invoked
\* once), and the provider injected into Svc for its parameter is the very
\* provider stored under the key Repo.
C32_ResolverInvokedOncePerBinding ==
  container.provider.built =>
    /\ Len(container.provider.provs) = Len(container.map)
    /\ \A i, j \in 1..Len(container.map) :
         i # j => Get(container.provider.map, container.map[i].k)
                    # Get(container.provider.map, container.map[j].k)
    /\ Has(container.map, "Svc") =>
         container.provider.provs[Get(container.provider.map, "Svc")]
           .args_callbacks = << Get(container.provider.map, "Repo") >>

\* Svc was bound before Repo, so that the provider of Repo was made during
\* the walk of Svc, and a Svc has been constructed from the Services
C32_Witness ==
  /\ container.provider.built
  /\ Len(container.map) = 2
  /\ container.map[1].k = "Svc"
  /\ container.provider.provs[Get(container.provider.map, "Svc")]
       .args_callbacks = << Get(container.provider.map, "Repo") >>
  /\ \E i \in Objects : heap[i].type = "Svc"

\* C33: in a built Services a provider of a class with constructor
\* parameters is asynchronous only if the provider of one of its
\* parameters is; Hook, whose parameters are all skipped, has a synchronous
\* provider, and resolve(Hook) returns a Hook, not a coroutine object.
C33_AsyncOnlyWithAsyncDependency ==
  /\ container.provider.built =>
       \A pid \in 1..Len(container.provider.provs) :
         container.provider.provs[pid].cls \in ExplicitClasses \cup MixedClasses
           => \E j \in 1..Len(container.provider.provs[pid].args_callbacks) :
                iscoroutinefunction(
                  container.provider.provs[
                    container.provider.provs[pid].args_callbacks[j]])
  /\ (last.op = "resolve" /\ last.arg = "Hook" /\ last.err = NoErr)
       => last.val.k = "obj"

\* C34: the first exec of a coroutine method with a parameter, when it
\* returns, has given the method a produced value for that parameter: what
\* the method received, and returns, is not a coroutine object.
C34_ExecAwaitsAsyncParameters ==
  [][\A method \in Methods :
       (/\ method.async
        /\ method.params # << >>
        /\ container.provider.built
        /\ method \notin container.provider.executors
        /\ container'.provider.executors
             = container.provider.executors \cup {method}
        /\ last'.op = "exec"
        /\ last'.err = NoErr)
         => ~isawaitable(last'.val)]_vars

\* C35: a Page made from its annotated fields holds a Res as its first
\* field and a Repo as its second, each a produced object and never a
\* coroutine object, and in a built Services the provider of Page is
\* asynchronous when the provider of Res is.
C35_FieldsLikeConstructorParameters ==
  /\ \A i \in Objects :
       (heap[i].type = "Page" /\ Len(heap[i].args) = 2) =>
         /\ heap[i].args[1].k = "obj"
         /\ heap[i].args[2].k = "obj"
         /\ heap[heap[i].args[1].a].type = "Res"
         /\ heap[heap[i].args[2].a].type = "Repo"
  /\ (/\ container.provider.built
      /\ Has(container.provider.map, "Page")
      /\ iscoroutinefunction(
           container.provider.provs[Get(container.provider.map, "Res")]))
       => iscoroutinefunction(
            container.provider.provs[Get(container.provider.map, "Page")])

\* C36: once a context manager singleton has been torn down by the exit of
\* the scope that first created it, a resolution of its key that runs its
\* provider (resolve for the sync class, aresolve for both), in whatever
\* scope, returns that same object: no factory is called, and the object
\* waits on no cleanup stack afterwards.
C36_TornDownSingletonStillReturned ==
  [][\A i \in Objects :
       (/\ heap[i].cls \in ContextManagerSingletons
        /\ heap[i].torn = 1
        /\ scopes[heap[i].scope].exited # "no"
        /\ container.provider.built
        /\ heap[i].gen = container.provider.gen
        /\ last'.op \in {"resolve", "aresolve"}
        /\ (last'.op = "resolve" => heap[i].cls \in StackClasses)
        /\ Has(container.provider.map, last'.arg)
        /\ Get(container.provider.map, last'.arg) = heap[i].by)
         => /\ last'.err = NoErr
            /\ last'.val = Obj(i)
            /\ Len(heap') = Len(heap)
            /\ heap'[i].torn = 1
            /\ \A s \in 1..Len(scopes') :
                 /\ \A j \in 1..Len(scopes'[s].stack) :
                      scopes'[s].stack[j] # i
                 /\ \A j \in 1..Len(scopes'[s].astack) :
                      scopes'[s].astack[j] # i]_vars

\* a context manager singleton that its first scope has torn down was
\* returned by the last resolution, made in another scope
C36_Witness ==
  \E i \in Objects :
    /\ heap[i].cls \in ContextManagerSingletons
    /\ heap[i].torn = 1
    /\ scopes[heap[i].scope].exited # "no"
    /\ last.op \in {"resolve", "aresolve"}
    /\ last.err = NoErr
    /\ last.val = Obj(i)
    /\ last.scope # heap[i].scope
    /\ Cardinality({j \in Objects : heap[j].by = heap[i].by}) = 1

\* C37: a successful binding drops the Services the container holds, so the
\* resolve of a singleton class that follows it, on a container without
\* Services, returns an object constructed in that very call; a resolve of
\* a key pinned with add_instance returns the pinned object itself and
\* constructs nothing, under whichever Services.
C37_MemoInServicesPinnedInContainer ==
  [][/\ (last'.op = "bind" /\ last'.err = NoErr)
          => ~container'.provider.built
     /\ \A key \in AppKeys(app) :
          (/\ last'.op = "resolve"
           /\ last'.arg = key
           /\ last'.err = NoErr
           /\ Has(container.map, key))
            => /\ Get(container.map, key).res = "InstanceResolver"
                    => /\ last'.val = Get(container.map, key).instance
                       /\ heap' = heap
               /\ (/\ Get(container.map, key).res = "DynamicResolver"
                   /\ Get(container.map, key).life_style = "SINGLETON"
                   /\ ~container.provider.built)
                    => /\ last'.val.k = "obj"
                       /\ last'.val.a > Len(heap)
                       /\ heap'[last'.val.a].type
                            = Get(container.map, key).concrete_type]_vars

\* the singleton Svc was resolved under two Services, before and after
\* another class was bound: two objects, each holding the one pinned Repo
C37_Witness ==
  \E r1, r2 \in returned :
    /\ r1.key = "Svc" /\ r2.key = "Svc"
    /\ r1.gen < r2.gen
    /\ r1.val # r2.val
    /\ last.op = "resolve" /\ last.val = r2.val
    /\ Get(container.map, "Repo").res = "InstanceResolver"
    /\ heap[r1.val.a].args = << Get(container.map, "Repo").instance >>
    /\ heap[r2.val.a].args = heap[r1.val.a].args

\* C38: with Svc bound singleton and Repo bound scoped or transient, the
\* Svc of a Services holds a Repo made in the scope in which the Svc was
\* made, every resolution of Svc returns that one Svc with that Repo, and a
\* resolution of Repo itself in another scope returns a Repo that is not
\* the one the Svc holds.
C38_SingletonCapturesFirstDependency ==
  (LifeOf("Svc") = "SINGLETON" /\ LifeOf("Repo") \in {"SCOPED", "TRANSIENT"})
    => /\ \A i \in Objects :
            heap[i].type = "Svc" =>
              /\ heap[i].args # << >>
              /\ heap[i].args[1].k = "obj"
              /\ heap[heap[i].args[1].a].type = "Repo"
              /\ heap[heap[i].args[1].a].scope = heap[i].scope
       /\ \A r1, r2 \in returned :
            (r1.gen = r2.gen /\ r1.key = "Svc") =>
              /\ r1.val.k = "obj"
              /\ r2.key = "Svc" => r2.val = r1.val
              /\ (r2.key = "Repo" /\ r2.scope # heap[r1.val.a].scope)
                   => r2.val # heap[r1.val.a].args[1]

\* the singleton Svc, made in a first scope with the Repo of that scope,
\* was returned again in a second scope, where Repo itself resolved to
\* another object
C38_Witness ==
  \E r1, r2, r3 \in returned :
    /\ LifeOf("Svc") = "SINGLETON" /\ LifeOf("Repo") = "SCOPED"
    /\ r1.key = "Svc" /\ r2.key = "Svc" /\ r3.key = "Repo"
    /\ r1.scope # r2.scope /\ r3.scope = r2.scope
    /\ r1.val = r2.val
    /\ heap[r1.val.a].scope = r1.scope
    /\ ~scopes[r1.scope].throwaway /\ ~scopes[r2.scope].throwaway
    /\ r3.val # heap[r1.val.a].args[1]

\* the scoped objects made in scope s are in the dict d under their types
CachedIn(d, s, st) ==
  \A i \in 1..Len(st.heap) :
    (st.heap[i].scope = s /\ st.heap[i].cls \in ScopedClasses)
      => /\ Has(d, st.heap[i].type)
         /\ Get(d, st.heap[i].type) = Obj(i)

\* what exec does to the dict it is given as scoped, s being the scope of
\* the call, block the end of the executor's block and done the end of the
\* executor
ExecOnMapping(scoped, s, block, done) ==
  /\ Adopted(scoped) =>
       /\ \A j \in 1..Len(scoped.items) :
            Has(CallerMapping(scoped, s, block.st), scoped.items[j].k)
       /\ CachedIn(CallerMapping(scoped, s, block.st), s, block.st)
       /\ CallerMapping(scoped, s, done.st) = << >>
       /\ ~Adopted(Mapping(CallerMapping(scoped, s, done.st)))
  /\ ~Adopted(scoped) =>
       /\ CallerMapping(scoped, s, block.st) = scoped.items
       /\ CallerMapping(scoped, s, done.st) = scoped.items

\* C39: wherever exec can run an executor, for every method and every dict
\* of the caller passed as scoped: a dict with items is the cache of the
\* scope itself, at the end of the block it holds its keys and every scoped
\* object made in the scope, it is empty when the executor is done, and
\* passed again it is not adopted; a dict without items is not adopted and
\* holds what the caller passed, during the call and after it.
C39_ExecUsesCallersMapping ==
  \A method \in Methods, scoped \in Seeds :
    (/\ container.provider.built
     /\ Len(scopes) < MaxScopes
     /\ method.async => app.async
     /\ ~scoped.none)
      => ExecOnMapping(
           scoped, Len(scopes) + 1,
           executor_Block(container.provider.map, method, scoped,
                          CallState(container, Len(scopes) + 1)),
           executor(container.provider.map, method, scoped,
                    CallState(container, Len(scopes) + 1)))

\* an exec given a dict that seeds the parameter's type has handed the seed
\* to the method, and the cache of its scope, the caller's dict, is empty
C39_Witness ==
  /\ last.op = "exec"
  /\ last.err = NoErr
  /\ last.val = Seed
  /\ last.scope > 1
  /\ scopes[last.scope].exited # "no"
  /\ scopes[last.scope].scoped_services = << >>

====
